---- MODULE Spec2Model ----
(***************************************************************************)
(* Model of openevolve-go.                                                 *)
(*                                                                         *)
(*   - the program store: pkg/database/island.go (Island, MAPGrid) and the *)
(*     ProgramDatabase of pkg/database (its source follows the tests in    *)
(*     database_test.go from line 361 on), with sampling and checkpoints;  *)
(*   - the evaluator's worker pool: pkg/evaluator/evaluator.go;            *)
(*   - the cascade evaluator (its source follows pkg/iteration/worker.go   *)
(*     from line 376 on);                                                  *)
(*   - the iteration worker: pkg/iteration/worker.go.                      *)
(*                                                                         *)
(* Each part has its own specification over the same variables; the        *)
(* variables of the other parts keep their initial values in it.           *)
(*                                                                         *)
(* Numbers.  Scores are integers (only their order and the comparison      *)
(* score > 0.8 * best matter).  Feature values, bounds and feature         *)
(* statistics are exact rationals <<n, d>> with d >= 0, kept reduced;      *)
(* <<1, 0>> is +Inf and <<-1, 0>> is -Inf.  FeatureStats.Mean, .Std and    *)
(* .LastUpdate are written by updateFeatureStats and read by nothing, and  *)
(* are left out.  Program ids are the naturals 1, 2, ...: every program    *)
(* handed to AddProgram is a new object with a new id (uuid.New at         *)
(* worker.go:149), so an id also stands for the pointer to the program.    *)
(***************************************************************************)
EXTENDS Integers, Sequences, FiniteSets, TLC

\* ---------------------------------------------------------------- bounds
MaxPrograms == 2
MaxMigrations == 2
MaxIslands == 2
MaxWorkers == 1
MaxCallers == 3
MaxStages == 3
MaxModels == 2
MaxRetries == 2
MaxGenerations == 3
MaxGoroutines == 2
MaxLines == 3

\* ------------------------------------------------------- program constants
Nil == 0
NegInf == -1000000
DefaultResolution == 10
MigrationRateNum == 1
MigrationRateDen == 2
MigrationInterval == 2
UnsetIslandID == 0

\* inputs of AddProgram
Scores == {0, 10}
FeatureInputs == {<< <<1, 1>> >>, << >>}
GridDimensions == <<"complexity">>
GridResolution == [d \in {"complexity"} |-> 5]
\* a grid configured with a single cell per dimension
SmallGridResolution == [d \in {"complexity"} |-> 1]
GridBounds == [d \in {"complexity"} |-> << <<0, 1>>, <<1, 1>> >>]

\* ---------------------------------------------------------------- rationals
RECURSIVE Gcd(_, _)
Gcd(a, b) == IF b = 0 THEN a ELSE Gcd(b, a % b)

Abs(x) == IF x < 0 THEN -x ELSE x

RNorm(r) ==
    IF r[2] = 0 THEN <<(IF r[1] < 0 THEN -1 ELSE 1), 0>>
    ELSE LET s == IF r[2] < 0 THEN -1 ELSE 1
             g == Gcd(Abs(r[1]), Abs(r[2]))
         IN <<(s * r[1]) \div g, (s * r[2]) \div g>>

RLess(a, b) == a[1] * b[2] < b[1] * a[2]
RSub(a, b) == RNorm(<<a[1] * b[2] - b[1] * a[2], a[2] * b[2]>>)
RDiv(a, b) == RNorm(<<a[1] * b[2], a[2] * b[1]>>)
RZero == <<0, 1>>
ROne == <<1, 1>>
RHalf == <<1, 2>>
RClamp01(r) == IF RLess(r, RZero) THEN RZero ELSE IF RLess(ROne, r) THEN ROne ELSE r
\* int(r * float64(k)) for r >= 0
RTruncTimes(r, k) == (r[1] * k) \div r[2]

Min2(a, b) == IF a < b THEN a ELSE b

\* score comparison a > b where b may be -Inf
ScoreGT(a, b) == IF b = NegInf THEN a # NegInf ELSE a # NegInf /\ a > b
\* program.Score > island.BestScore*0.8
AboveMigrationThreshold(s, best) == IF best = NegInf THEN TRUE ELSE 5 * s > 4 * best

\* ---------------------------------------------------------------- state
VARIABLES
    gridResolution,          \* config.GridResolution, shared by every island's Grid.Resolution
    gridBounds,              \* config.GridBounds, shared by every island's Grid.Bounds
    heap,                    \* id -> the Program object (Score, Features, IslandID)
    programs,                \* db.programs: ids in the global index
    islands,                 \* db.islands: 0..N-1 -> Island
    globalBest,              \* db.globalBest (id or Nil)
    globalBestScore,         \* db.globalBestScore
    currentIsland,           \* db.currentIsland
    lastMigrationGeneration, \* db.lastMigrationGeneration
    stats,                   \* db.stats counters
    last,                    \* history: the last operation, its inputs and its AddToGrid calls
    movedOut,                \* history: island -> programs moved out of it since start
    unsetIds,                \* history: ids of the programs added with IslandID left unset
    nMigrations              \* history: MigratePrograms calls so far

\* the store
dbVars == <<gridResolution, gridBounds, heap, programs, islands, globalBest, globalBestScore,
            currentIsland, lastMigrationGeneration, stats, last, movedOut, unsetIds,
            nMigrations>>

\* the file system under the store
VARIABLES
    checkpointDir,           \* db.checkpointDir: "" when no directory is configured
    files                    \* the checkpoint directory: file name -> content

fsVars == <<checkpointDir, files>>

\* the evaluator's worker pool and the goroutines around it
VARIABLES
    wp,                      \* the WorkerPool: jobs channel, ctx, and where Start and Stop are
    workers,                 \* worker goroutine -> its position, job and result
    callers,                 \* Evaluate call -> its position, ctx, ResultChan and return
    panicked                 \* a goroutine has panicked: the process is gone

poolVars == <<wp, workers, callers, panicked>>

\* the cascade evaluator and one Evaluate call on it
VARIABLES
    stages,                  \* ce.stages
    cascade                  \* the call: loop position, result, return, and the stages run

cascadeVars == <<stages, cascade>>

\* the iteration worker
VARIABLES
    iter                     \* the RunIteration call: the step it is at, its parent, the steps done

iterVars == <<iter>>

\* the goroutines the store starts
VARIABLES
    scheduled,               \* the MigratePrograms goroutines UpdateGeneration has started
    mu,                      \* db.mu: the writer holding it, and the readers holding it
    migration,               \* a MigratePrograms call, statement by statement
    readers                  \* reader goroutine -> its position and what it saw

asyncVars == <<scheduled, mu, migration, readers>>

\* the model ensemble
VARIABLES
    ensemble,                \* the Ensemble NewEnsemble returned, and its last selectClient call
    oracle                   \* an OpenAIClient and one GenerateWithSystemMessage call on it

llmVars == <<ensemble, oracle>>

\* the evaluator and the iteration worker
runVars == <<poolVars, cascadeVars, iterVars, llmVars, asyncVars>>

\* what the worker pool does not touch
notPoolVars == <<dbVars, fsVars, cascadeVars, iterVars, llmVars, asyncVars>>

\* what the cascade evaluator does not touch
notCascadeVars == <<dbVars, fsVars, poolVars, iterVars, llmVars, asyncVars>>

\* what RunIteration touches only through the store
notIterVars == <<fsVars, poolVars, cascadeVars, llmVars, asyncVars>>

\* what the ensemble does not touch
notLlmVars == <<dbVars, fsVars, poolVars, cascadeVars, iterVars, asyncVars>>

\* what lies outside the store
outsideVars == <<fsVars, runVars>>

vars == <<dbVars, outsideVars>>

NumIslands == Cardinality(DOMAIN islands)
IslandIDs == DOMAIN islands

\* ---------------------------------------------------------------- island.go
NewFeatureStats == [Min |-> <<1, 0>>, Max |-> <<-1, 0>>, Count |-> 0]

Range(s) == {s[k] : k \in DOMAIN s}

ResolutionOf(dim) ==
    IF dim \in DOMAIN gridResolution THEN gridResolution[dim] ELSE DefaultResolution

BoundsOf(dim) ==
    IF dim \in DOMAIN gridBounds THEN gridBounds[dim] ELSE <<RZero, ROne>>

RECURSIVE TotalCellsFrom(_)
TotalCellsFrom(k) ==
    IF k > Len(GridDimensions) THEN 1
    ELSE ResolutionOf(GridDimensions[k]) * TotalCellsFrom(k + 1)

NewIsland(id) ==
    [ID |-> id,
     Programs |-> {},
     Cells |-> << >>,
     TotalCells |-> TotalCellsFrom(1),
     FilledCells |-> 0,
     BestProgram |-> Nil,
     BestScore |-> NegInf,
     BestID |-> Nil,
     Generation |-> 0,
     Migrated |-> 0,
     FeatureStats |-> [d \in Range(GridDimensions) |-> NewFeatureStats]]

\* variant of LastIndex: the normalized feature is scaled by the resolution
LastIndexIsResolution(resolution) == resolution

\* float64(resolution-1)
LastIndex(resolution) == resolution - 1

CellIndex(dim, feature) ==
    LET b == BoundsOf(dim)
        normalized == RClamp01(RDiv(RSub(feature, b[1]), RSub(b[2], b[1])))
    IN RTruncTimes(normalized, LastIndex(ResolutionOf(dim)))

\* the key "dim:index;dim:index;..." as the sequence of its <<dim, index>> parts
calculateCellKey(features) ==
    IF Len(features) # Len(GridDimensions) THEN << >>
    ELSE [k \in 1..Len(GridDimensions) |->
            <<GridDimensions[k], CellIndex(GridDimensions[k], features[k])>>]

UpdateOneStat(st, feature) ==
    [Min |-> IF RLess(feature, st.Min) THEN feature ELSE st.Min,
     Max |-> IF RLess(st.Max, feature) THEN feature ELSE st.Max,
     Count |-> st.Count + 1]

DimIndex(dim) == CHOOSE k \in 1..Len(GridDimensions) : GridDimensions[k] = dim

updateFeatureStats(fs, features) ==
    [d \in DOMAIN fs |->
        IF DimIndex(d) > Len(features) THEN fs[d]
        ELSE UpdateOneStat(fs[d], features[DimIndex(d)])]

ScaleOne(st, feature) ==
    IF st.Count = 0 THEN feature
    ELSE IF RLess(st.Min, st.Max)
         THEN RClamp01(RDiv(RSub(feature, st.Min), RSub(st.Max, st.Min)))
         ELSE RHalf

ScaleFeatures(isl, features) ==
    [k \in 1..Len(features) |->
        IF k > Len(GridDimensions) THEN RZero
        ELSE ScaleOne(isl.FeatureStats[GridDimensions[k]], features[k])]

\* variant of Better: a tie replaces the occupant
BetterOrEqual(newScore, oldScore) == newScore >= oldScore

\* program.Score > existing.Score
Better(newScore, oldScore) == newScore > oldScore

\* AddToGrid: the island afterwards and the returned flag
AddToGrid(isl, id, h) ==
    LET cellKey == calculateCellKey(h[id].Features)
        exists == cellKey \in DOMAIN isl.Cells
    IN IF ~exists \/ Better(h[id].Score, h[isl.Cells[cellKey]].Score)
       THEN [isl |-> [isl EXCEPT
                        !.Cells = (cellKey :> id) @@ isl.Cells,
                        !.FilledCells = IF exists THEN @ ELSE @ + 1,
                        !.FeatureStats = updateFeatureStats(@, h[id].Features)],
             ret |-> TRUE]
       ELSE [isl |-> isl, ret |-> FALSE]

\* history record of one AddToGrid call
GridCall(isl, id, h) ==
    LET cellKey == calculateCellKey(h[id].Features)
        r == AddToGrid(isl, id, h)
    IN [island |-> isl.ID, id |-> id, key |-> cellKey,
        wasFilled |-> cellKey \in DOMAIN isl.Cells,
        oldOccupant |-> IF cellKey \in DOMAIN isl.Cells THEN isl.Cells[cellKey] ELSE Nil,
        newOccupant |-> r.isl.Cells[cellKey],
        filledBefore |-> isl.FilledCells,
        filledAfter |-> r.isl.FilledCells,
        ret |-> r.ret]

\* ---------------------------------------------------------------- database.go
NoLast == [op |-> "New", id |-> Nil, unset |-> FALSE, given |-> 0, target |-> 0,
           cursor |-> 0, calls |-> << >>, moved |-> << >>, err |-> FALSE,
           result |-> << >>, visited |-> << >>, features |-> << >>]

\* database.New with the given grid resolution and bounds
NewOn(resolution, bounds) ==
    /\ gridResolution = resolution
    /\ gridBounds = bounds
    /\ heap = << >>
    /\ programs = {}
    /\ \E n \in 1..MaxIslands : islands = [i \in 0..(n - 1) |-> NewIsland(i)]
    /\ globalBest = Nil
    /\ globalBestScore = NegInf
    /\ currentIsland = 0
    /\ lastMigrationGeneration = 0
    /\ stats = [TotalEvaluations |-> 0, SuccessfulEvals |-> 0, FailedEvals |-> 0]
    /\ last = NoLast
    /\ movedOut = [i \in DOMAIN islands |-> 0]
    /\ unsetIds = {}
    /\ nMigrations = 0

\* database.New with the given grid resolution
New(resolution) == NewOn(resolution, GridBounds)

Workers == 1..MaxWorkers
Callers == 1..MaxCallers

NoResult == [kind |-> "none", success |-> FALSE, cancelled |-> FALSE]

\* NewWorkerPool: open channels, a live ctx, no worker started, no Evaluate call made
NewWorkerPool ==
    /\ wp = [jobs |-> << >>, jobsClosed |-> FALSE, resultsClosed |-> FALSE,
             ctxDone |-> FALSE, started |-> FALSE, stop |-> "not called"]
    /\ workers = [w \in Workers |-> [pc |-> "not started", job |-> Nil, success |-> FALSE]]
    /\ callers = [c \in Callers |-> [pc |-> "not called", ctxDone |-> FALSE,
                                      ResultChan |-> << >>, ret |-> NoResult,
                                      afterStop |-> FALSE, submitted |-> FALSE,
                                      ran |-> FALSE]]
    /\ panicked = FALSE

\* scores and thresholds in tenths; -10 is the -1.0 of an output without a score
Thresholds == {0, 5, 8}
StageScoreOutputs == {-10, 4, 5, 9}
StageNames == <<"validation", "basic", "comprehensive", "extra">>

\* the stages of getDefaultConfig
DefaultCascadeStages ==
    <<[Name |-> "validation", Threshold |-> 0, Critical |-> TRUE],
      [Name |-> "basic", Threshold |-> 5, Critical |-> FALSE],
      [Name |-> "comprehensive", Threshold |-> 8, Critical |-> FALSE]>>

\* the stage lists a configuration can hold: at least one stage
StageConfigs ==
    UNION {{[k \in 1..n |-> [Name |-> StageNames[k], Threshold |-> f[k][1],
                              Critical |-> f[k][2]]]
               : f \in [1..n -> Thresholds \X BOOLEAN]}
              : n \in 1..MaxStages}

\* NewCascadeEvaluator and the first lines of Evaluate: the result before any stage
NewCascadeEvaluator(stageList) ==
    /\ stages = stageList
    /\ cascade = [i |-> 1,
                  result |-> [Success |-> FALSE, Score |-> 0, Error |-> FALSE,
                              failure_stage |-> "", threshold_failed |-> FALSE],
                  returned |-> FALSE,
                  err |-> FALSE,
                  executed |-> << >>]

\* NewIterationWorker: no RunIteration call is under way
NewIterationWorker ==
    iter = [pc |-> "idle", parent |-> Nil, child |-> Nil, score |-> 0, steps |-> << >>,
            before |-> << >>]

\* raw weights of a model configuration, and the configuration lists: any
\* number of models from none to MaxModels
RawWeights == {-1, 0, 1, 3}
EnsembleConfigs == UNION {[1..n -> RawWeights] : n \in 0..MaxModels}

\* the configuration getDefaultConfig and the OPENAI_MODEL override build
DefaultModels == <<1>>

RECURSIVE SumWeights(_)
SumWeights(ws) == IF ws = << >> THEN 0 ELSE Head(ws) + SumWeights(Tail(ws))

\* "Normalize weights": divided by the total when it is positive, equal otherwise
NormalizeWeights(configs) ==
    LET totalWeight == SumWeights(configs)
    IN [i \in 1..Len(configs) |->
           IF totalWeight > 0 THEN RNorm(<<configs[i], totalWeight>>)
           ELSE RNorm(<<1, Len(configs)>>)]

NoSelection == [r |-> RZero, client |-> 0]

\* the goroutines of one GenerateMultiple or ParallelGenerate call
Goroutines == 1..MaxGoroutines

\* no goroutine is inside selectClient, and nobody holds e.mu
NoGoroutines ==
    [pc |-> [g \in Goroutines |-> "idle"], rlocked |-> {}, client |-> [g \in Goroutines |-> 0]]

\* NewEnsemble(configs): an error and no ensemble for an empty list, else one
\* client per configuration (createClient never fails) and the weights
NewEnsemble(configs) ==
    ensemble = IF Len(configs) = 0
               THEN [configs |-> configs, err |-> TRUE, clients |-> 0,
                     weights |-> << >>, selected |-> NoSelection, go |-> NoGoroutines]
               ELSE [configs |-> configs, err |-> FALSE, clients |-> Len(configs),
                     weights |-> NormalizeWeights(configs), selected |-> NoSelection,
                     go |-> NoGoroutines]

\* no MigratePrograms goroutine has been started: none is pending, and none
\* was started at any generation
Readers == {1, 2}

NoMigration == [pc |-> "idle", i |-> 0, order |-> << >>, j |-> 0, migrated |-> 0,
                inFlight |-> Nil]

\* nobody holds db.mu, and no call on the store is under way
NoneScheduled ==
    /\ scheduled = [pending |-> 0, at |-> << >>]
    /\ mu = [writer |-> "", readers |-> {}]
    /\ migration = NoMigration
    /\ readers = [r \in Readers |-> [pc |-> "idle", absent |-> {}]]

\* the default getOrDefaultInt(c.config.Retries, 3) falls back to
DefaultRetries == 3

\* NewOpenAIClient with the given config.Retries; no call is under way
NewOpenAIClient(retries) ==
    oracle = [Retries |-> retries, pc |-> "idle", attempt |-> 0, requests |-> 0,
              ctxDone |-> FALSE, ret |-> "none", status |-> 0, afterCancel |-> 0]

CheckpointDirName == "checkpoints"

\* New with a checkpoint directory that holds no file yet
NewCheckpointDir(dir) ==
    /\ checkpointDir = dir
    /\ files = << >>

\* an empty checkpoint directory, a new evaluator and a new iteration worker
InitOutside ==
    /\ NewCheckpointDir(CheckpointDirName)
    /\ NewWorkerPool
    /\ NewCascadeEvaluator(DefaultCascadeStages)
    /\ NewIterationWorker
    /\ NewEnsemble(DefaultModels)
    /\ NewOpenAIClient(DefaultRetries)
    /\ NoneScheduled

Init == New(GridResolution) /\ InitOutside

\* the island AddProgram puts the program on
TargetIsland(islandID) ==
    IF islandID >= 0 /\ islandID < NumIslands THEN islandID ELSE currentIsland

\* variant of NextCursor: the cursor is not advanced
NextCursorStuck(cur) == cur

\* db.currentIsland = (db.currentIsland + 1) % len(db.islands)
NextCursor(cur) == (cur + 1) % NumIslands

\* variant of IsNewGlobalBest: the last insert always becomes the global best
IsNewGlobalBestAlways(score, best) == TRUE

\* program.Score > db.globalBestScore
IsNewGlobalBest(score, best) == ScoreGT(score, best)

AddProgram(score, features, islandID, unset, generation) ==
    LET id == Cardinality(DOMAIN heap) + 1
        targetIsland == TargetIsland(islandID)
        island == islands[targetIsland]
        scaled == ScaleFeatures(island, features)
        h2 == (id :> [ID |-> id, Score |-> score, Features |-> scaled,
                      IslandID |-> islandID, Generation |-> generation]) @@ heap
        isl1 == [island EXCEPT !.Programs = @ \cup {id}]
        g == AddToGrid(isl1, id, h2)
        isl2 == IF ScoreGT(score, g.isl.BestScore)
                THEN [g.isl EXCEPT !.BestProgram = id, !.BestScore = score, !.BestID = id]
                ELSE g.isl
    IN /\ Cardinality(DOMAIN heap) < MaxPrograms
       /\ heap' = h2
       /\ programs' = programs \cup {id}
       /\ islands' = [islands EXCEPT ![targetIsland] = isl2]
       /\ IF IsNewGlobalBest(score, globalBestScore)
          THEN globalBest' = id /\ globalBestScore' = score
          ELSE UNCHANGED <<globalBest, globalBestScore>>
       /\ stats' = [stats EXCEPT
                      !.TotalEvaluations = @ + 1,
                      !.SuccessfulEvals = IF score > 0 THEN @ + 1 ELSE @,
                      !.FailedEvals = IF score > 0 THEN @ ELSE @ + 1]
       /\ currentIsland' = NextCursor(currentIsland)
       /\ last' = [NoLast EXCEPT !.op = "AddProgram", !.id = id, !.unset = unset,
                                 !.given = islandID, !.target = targetIsland,
                                 !.cursor = currentIsland,
                                 !.calls = <<GridCall(isl1, id, h2)>>]
       /\ unsetIds' = IF unset THEN unsetIds \cup {id} ELSE unsetIds
       /\ UNCHANGED <<gridResolution, gridBounds, lastMigrationGeneration, movedOut, nMigrations>>

\* AddProgram with the island id the caller set
AddProgramWithIsland ==
    \E score \in Scores, features \in FeatureInputs, islandID \in -1..NumIslands :
        AddProgram(score, features, islandID, FALSE, 0) /\ UNCHANGED outsideVars

\* AddProgram with Program.IslandID left at its zero value
AddProgramUnset ==
    \E score \in Scores, features \in FeatureInputs :
        AddProgram(score, features, UnsetIslandID, TRUE, 0) /\ UNCHANGED outsideVars

\* variant of ToMigrate: every candidate is migrated
ToMigrateAll(nCandidates) == nCandidates

\* toMigrate := int(float64(len(candidates)) * db.config.MigrationRate), at least 1
\* when there is a candidate
ToMigrate(nCandidates) ==
    LET t == (nCandidates * MigrationRateNum) \div MigrationRateDen
    IN IF t < 1 /\ nCandidates > 0 THEN 1 ELSE t

\* the programs of an island the migration loop collects as candidates
Candidates(isl, h) ==
    {id \in isl.Programs : AboveMigrationThreshold(h[id].Score, isl.BestScore)}

\* the first k candidates in the order the map iteration produced them: any k of them, in any order
Orders(S, k) ==
    {o \in [1..k -> S] : \A a, b \in 1..k : a # b => o[a] # o[b]}

\* the amount added to island.Migrated after the island's moves (the loop's running count)
MigratedIncrement(runningCount, movedFromIsland) == runningCount

\* variant of MoveProgram: the program is not deleted from the source island
MoveProgramKeepSource(st, i, id) ==
    LET n == Cardinality(DOMAIN st.islands)
        t == (i + 1) % n
        h2 == [st.heap EXCEPT ![id].IslandID = st.islands[t].ID]
        dst1 == [st.islands[t] EXCEPT !.Programs = @ \cup {id}]
        g == AddToGrid(dst1, id, h2)
    IN [islands |-> [st.islands EXCEPT ![t] = g.isl],
        heap |-> h2,
        migrated |-> st.migrated + 1,
        calls |-> Append(st.calls, GridCall(dst1, id, h2)),
        moved |-> [st.moved EXCEPT ![i] = @ + 1]]

\* variant of MoveProgram: the program is not inserted into the target island's map
MoveProgramNoInsert(st, i, id) ==
    LET n == Cardinality(DOMAIN st.islands)
        t == (i + 1) % n
        h2 == [st.heap EXCEPT ![id].IslandID = st.islands[t].ID]
        src == [st.islands[i] EXCEPT !.Programs = @ \ {id}]
        g == AddToGrid(st.islands[t], id, h2)
    IN [islands |-> [[st.islands EXCEPT ![i] = src] EXCEPT ![t] = g.isl],
        heap |-> h2,
        migrated |-> st.migrated + 1,
        calls |-> Append(st.calls, GridCall(st.islands[t], id, h2)),
        moved |-> [st.moved EXCEPT ![i] = @ + 1]]

\* one pass of the inner loop: move program id from island i to the next island
MoveProgram(st, i, id) ==
    LET n == Cardinality(DOMAIN st.islands)
        t == (i + 1) % n
        h2 == [st.heap EXCEPT ![id].IslandID = st.islands[t].ID]
        src == [st.islands[i] EXCEPT !.Programs = @ \ {id}]
        dst0 == IF t = i THEN src ELSE st.islands[t]
        dst1 == [dst0 EXCEPT !.Programs = @ \cup {id}]
        g == AddToGrid(dst1, id, h2)
    IN [islands |-> [[st.islands EXCEPT ![i] = src] EXCEPT ![t] = g.isl],
        heap |-> h2,
        migrated |-> st.migrated + 1,
        calls |-> Append(st.calls, GridCall(dst1, id, h2)),
        moved |-> [st.moved EXCEPT ![i] = @ + 1]]

RECURSIVE MoveAll(_, _, _, _)
MoveAll(st, i, order, j) ==
    IF j > Len(order) THEN st
    ELSE MoveAll(MoveProgram(st, i, order[j]), i, order, j + 1)

\* the body of the outer loop for island i: every outcome the map order allows
MigrateIsland(st, i) ==
    LET candidates == Candidates(st.islands[i], st.heap)
        k == Min2(ToMigrate(Cardinality(candidates)), Cardinality(candidates))
    IN {LET st2 == MoveAll(st, i, order, 1)
        IN [st2 EXCEPT !.islands[i].Migrated =
                @ + MigratedIncrement(st2.migrated, st2.moved[i])]
        : order \in Orders(candidates, k)}

RECURSIVE MigrateLoop(_, _)
MigrateLoop(st, i) ==
    IF i >= Cardinality(DOMAIN st.islands) THEN {st}
    ELSE UNION {MigrateLoop(st2, i + 1) : st2 \in MigrateIsland(st, i)}

MigrateProgramsStore ==
    /\ nMigrations < MaxMigrations
    /\ nMigrations' = nMigrations + 1
    /\ UNCHANGED <<gridResolution, gridBounds>>
    /\ IF NumIslands < 2
       THEN /\ last' = [NoLast EXCEPT !.op = "MigratePrograms",
                                      !.moved = [i \in IslandIDs |-> 0]]
            /\ UNCHANGED <<heap, programs, islands, globalBest, globalBestScore,
                           currentIsland, lastMigrationGeneration, stats, movedOut,
                           unsetIds>>
       ELSE \E st \in MigrateLoop([islands |-> islands, heap |-> heap, migrated |-> 0,
                                   calls |-> << >>, moved |-> [i \in IslandIDs |-> 0]], 0) :
            /\ islands' = st.islands
            /\ heap' = st.heap
            /\ lastMigrationGeneration' = st.islands[0].Generation
            /\ last' = [NoLast EXCEPT !.op = "MigratePrograms", !.calls = st.calls,
                                      !.moved = st.moved]
            /\ movedOut' = [i \in IslandIDs |-> movedOut[i] + st.moved[i]]
            /\ UNCHANGED <<programs, globalBest, globalBestScore, currentIsland, stats,
                           unsetIds>>

\* MigratePrograms called by the owner of the store
MigratePrograms == MigrateProgramsStore /\ UNCHANGED outsideVars

Next ==
    \/ AddProgramWithIsland
    \/ AddProgramUnset
    \/ MigratePrograms

Spec == Init /\ [][Next]_vars

\* ------------------------------------------------------------------ sampling
SampleCounts == {0, 1, 2}

\* SampleFromGrid: Nil on an empty grid, else the occupant of any filled cell
SampleFromGrid(isl) ==
    IF DOMAIN isl.Cells = {} THEN {Nil}
    ELSE {isl.Cells[k] : k \in DOMAIN isl.Cells}

\* the returns SampleFromIsland(islandID) can produce: <<program, failed>>
SampleFromIsland(islandID) ==
    IF islandID < 0 \/ islandID >= NumIslands THEN {<<Nil, TRUE>>}
    ELSE LET island == islands[islandID]
             fromGrid == SampleFromGrid(island) \ {Nil}
         IN IF fromGrid # {} THEN {<<p, FALSE>> : p \in fromGrid}
            ELSE IF island.Programs # {} THEN {<<p, FALSE>> : p \in island.Programs}
            ELSE {<<Nil, TRUE>>}

SampleFromIslandCall ==
    \E islandID \in -1..NumIslands : \E r \in SampleFromIsland(islandID) :
        /\ last' = [NoLast EXCEPT !.op = "SampleFromIsland", !.given = islandID,
                                  !.cursor = currentIsland,
                                  !.result = IF r[2] THEN << >> ELSE <<r[1]>>,
                                  !.err = r[2]]
        /\ UNCHANGED <<gridResolution, gridBounds, heap, programs, islands, globalBest,
                       globalBestScore, currentIsland, lastMigrationGeneration, stats,
                       movedOut, unsetIds, nMigrations, outsideVars>>

\* what the first loop of SampleMultiple draws on one island (Nil: nothing appended)
IslandDraw(island) ==
    LET fromGrid == SampleFromGrid(island) \ {Nil}
    IN IF fromGrid # {} THEN fromGrid ELSE {island.BestProgram}

\* variant of IslandLoopBound: the loop runs count times whatever the number of islands
IslandLoopBoundCount(count) == count

\* for i := 0; i < count && i < len(db.islands); i++
IslandLoopBound(count) == Min2(count, NumIslands)

\* the first loop of SampleMultiple from its pass i on: the island visited and
\* the program drawn in each pass
RECURSIVE IslandDraws(_, _)
IslandDraws(i, count) ==
    IF i >= IslandLoopBound(count) THEN {<< >>}
    ELSE LET islandID == (currentIsland + i) % NumIslands
         IN {<<[island |-> islandID, program |-> p]>> \o t :
                p \in IslandDraw(islands[islandID]), t \in IslandDraws(i + 1, count)}

\* the programs the first loop appended
RECURSIVE Appended(_)
Appended(draws) ==
    IF draws = << >> THEN << >>
    ELSE IF draws[1].program = Nil THEN Appended(Tail(draws))
    ELSE <<draws[1].program>> \o Appended(Tail(draws))

\* the second loop of SampleMultiple: draws from the global index until count is reached
RECURSIVE TopUp(_, _)
TopUp(ps, count) ==
    IF Len(ps) < count /\ programs # {}
    THEN UNION {TopUp(Append(ps, p), count) : p \in programs}
    ELSE {ps}

SampleMultipleCall ==
    \E count \in SampleCounts :
        /\ IF count <= 0
           THEN last' = [NoLast EXCEPT !.op = "SampleMultiple", !.given = count,
                                       !.cursor = currentIsland, !.err = TRUE]
           ELSE \E draws \in IslandDraws(0, count) : \E ps \in TopUp(Appended(draws), count) :
                    last' = [NoLast EXCEPT !.op = "SampleMultiple", !.given = count,
                                           !.cursor = currentIsland, !.result = ps,
                                           !.visited = draws]
        /\ UNCHANGED <<gridResolution, gridBounds, heap, programs, islands, globalBest,
                       globalBestScore, currentIsland, lastMigrationGeneration, stats,
                       movedOut, unsetIds, nMigrations, outsideVars>>

\* a sample changes nothing in the store: what can follow it is what could
\* follow the state it was taken in, so a behaviour is followed up to its
\* first sample
Sampled == last.op \in {"SampleFromIsland", "SampleMultiple"}

StoreStep == ~Sampled /\ Next

NextSample ==
    \/ StoreStep
    \/ ~Sampled /\ SampleFromIslandCall
    \/ ~Sampled /\ SampleMultipleCall

SpecSample == Init /\ [][NextSample]_vars

\* --------------------------------------------------------------- checkpoints
\* A file holds the JSON document of a types.Checkpoint: programs
\* are written by value wherever a pointer to them is reachable (island
\* program maps, grid cells, global best); Island.BestProgram, FeatureStats,
\* the cursor and lastMigrationGeneration are not part of the document.  Next
\* to the document a file carries, as history, the state it was saved from,
\* and whether it holds the whole document or only a proper prefix of it.
CheckpointIterations == {5}

CheckpointFile(iteration) == <<"checkpoint", iteration>>
LatestFile == <<"latest", 0>>
FileNames == {CheckpointFile(it) : it \in CheckpointIterations} \cup {LatestFile}

\* encoding/json refuses a float64 that is infinite
Encodable(score) == score # NegInf

IslandJSON(island) ==
    [ID |-> island.ID,
     Programs |-> [id \in island.Programs |-> heap[id]],
     Cells |-> [k \in DOMAIN island.Cells |-> heap[island.Cells[k]]],
     TotalCells |-> island.TotalCells,
     FilledCells |-> island.FilledCells,
     BestScore |-> island.BestScore,
     BestID |-> island.BestID,
     Generation |-> island.Generation,
     Migrated |-> island.Migrated]

\* the types.Checkpoint SaveCheckpoint builds; GlobalBest is << >> for nil
CheckpointOf(iteration) ==
    [Iteration |-> iteration,
     Generation |-> islands[0].Generation,
     Islands |-> [i \in IslandIDs |-> IslandJSON(islands[i])],
     GlobalBest |-> IF globalBest = Nil THEN << >> ELSE <<heap[globalBest]>>,
     Stats |-> stats]

\* json.MarshalIndent(checkpoint) returns an error
MarshalFails(checkpoint) ==
    \/ \E i \in DOMAIN checkpoint.Islands :
          \/ ~Encodable(checkpoint.Islands[i].BestScore)
          \/ \E id \in DOMAIN checkpoint.Islands[i].Programs :
                ~Encodable(checkpoint.Islands[i].Programs[id].Score)
    \/ \E j \in DOMAIN checkpoint.GlobalBest : ~Encodable(checkpoint.GlobalBest[j].Score)

\* what the accessors of the store show
Observable ==
    [programs |-> [id \in programs |-> heap[id]],
     islands |-> [i \in IslandIDs |->
                    [Programs |-> islands[i].Programs,
                     Cells |-> islands[i].Cells,
                     TotalCells |-> islands[i].TotalCells,
                     FilledCells |-> islands[i].FilledCells,
                     BestScore |-> islands[i].BestScore,
                     BestID |-> islands[i].BestID,
                     Generation |-> islands[i].Generation,
                     Migrated |-> islands[i].Migrated]],
     globalBest |-> globalBest,
     globalBestScore |-> globalBestScore,
     stats |-> stats]

\* ioutil.WriteFile opens the file with O_TRUNC and then writes the data: the
\* open can fail and leave the file as it was, and the write can fail after
\* the truncation and leave a proper prefix of the data
WriteFileOutcomes == {"written", "open failed", "write failed"}

\* the directory after ioutil.WriteFile(name, data) with the given outcome
WriteFile(fs, name, data, outcome) ==
    IF outcome = "open failed"
    THEN fs
    ELSE [n \in DOMAIN fs \cup {name} |->
             IF n = name THEN [data EXCEPT !.partial = (outcome = "write failed")]
             ELSE fs[n]]

\* variant of WriteLatest: latest.json is not written
WriteLatestSkipped(fs, data, outcome) == fs

\* "Also write latest checkpoint"
WriteLatest(fs, data, outcome) == WriteFile(fs, LatestFile, data, outcome)

\* where one SaveCheckpoint call can meet its first failing system call:
\* nowhere, in MkdirAll, or in the first or the second WriteFile
NoFault == <<0, "none">>
SaveFaults == {NoFault, <<0, "mkdir">>} \cup
              {<<n, o>> : n \in {1, 2}, o \in WriteFileOutcomes \ {"written"}}

\* SaveCheckpoint(iteration): the directory it leaves and whether it returns
\* an error, when the first failing system call is the given one
SaveResult(iteration, fault) ==
    LET mkdirFails == fault = <<0, "mkdir">>
        outcome1 == IF fault[1] = 1 THEN fault[2] ELSE "written"
        outcome2 == IF fault[1] = 2 THEN fault[2] ELSE "written"
        checkpoint == CheckpointOf(iteration)
        data == [checkpoint |-> checkpoint, state |-> Observable, partial |-> FALSE]
        first == WriteFile(files, CheckpointFile(iteration), data, outcome1)
    IN IF checkpointDir = "" THEN [files |-> files, err |-> FALSE]
       ELSE IF MarshalFails(checkpoint) \/ mkdirFails THEN [files |-> files, err |-> TRUE]
       ELSE IF outcome1 # "written" THEN [files |-> first, err |-> TRUE]
       ELSE [files |-> WriteLatest(first, data, outcome2), err |-> outcome2 # "written"]

\* SaveCheckpoint on a file system where every call succeeds
SaveCheckpoint ==
    \E iteration \in CheckpointIterations :
        LET r == SaveResult(iteration, NoFault)
        IN /\ files' = r.files
           /\ last' = [NoLast EXCEPT !.op = "SaveCheckpoint", !.given = iteration,
                                     !.err = r.err]
           /\ UNCHANGED <<gridResolution, gridBounds, heap, programs, islands, globalBest,
                          globalBestScore, currentIsland, lastMigrationGeneration, stats,
                          movedOut, unsetIds, nMigrations, checkpointDir, runVars>>

\* SaveCheckpoint on a file system where MkdirAll and WriteFile can fail
SaveCheckpointFaulty ==
    \E iteration \in CheckpointIterations, fault \in SaveFaults :
        LET r == SaveResult(iteration, fault)
        IN /\ files' = r.files
           /\ last' = [NoLast EXCEPT !.op = "SaveCheckpoint", !.given = iteration,
                                     !.err = r.err]
           /\ UNCHANGED <<gridResolution, gridBounds, heap, programs, islands, globalBest,
                          globalBestScore, currentIsland, lastMigrationGeneration, stats,
                          movedOut, unsetIds, nMigrations, checkpointDir, runVars>>

\* every program written into a checkpoint document
ProgramsIn(checkpoint) ==
    UNION {Range(checkpoint.Islands[i].Programs) \cup Range(checkpoint.Islands[i].Cells)
              : i \in DOMAIN checkpoint.Islands}
        \cup Range(checkpoint.GlobalBest)

\* the island LoadCheckpoint builds from its entry in the document
LoadIsland(id, islandData) ==
    [NewIsland(id) EXCEPT
        !.Programs = DOMAIN islandData.Programs,
        !.Cells = [k \in DOMAIN islandData.Cells |-> islandData.Cells[k].ID],
        !.TotalCells = islandData.TotalCells,
        !.FilledCells = islandData.FilledCells,
        !.BestScore = islandData.BestScore,
        !.BestID = islandData.BestID,
        !.Generation = islandData.Generation,
        !.Migrated = islandData.Migrated,
        !.BestProgram = IF islandData.BestID # Nil /\ islandData.BestID \in DOMAIN islandData.Programs
                        THEN islandData.BestID ELSE Nil]

\* variant of LoadedIndex: db.programs is not made anew
LoadedIndexKept(checkpoint) ==
    programs \cup UNION {DOMAIN checkpoint.Islands[i].Programs : i \in DOMAIN checkpoint.Islands}

\* db.programs = make(map[string]*types.Program), filled from the program
\* maps of the document's islands
LoadedIndex(checkpoint) ==
    UNION {DOMAIN checkpoint.Islands[i].Programs : i \in DOMAIN checkpoint.Islands}

\* LoadCheckpoint(name) on this store.  The programs of the document become
\* new objects; the copies of one program agree in every field, and the model
\* keeps one object per id.
LoadCheckpoint ==
    \E name \in FileNames :
        IF name \notin DOMAIN files \/ (name \in DOMAIN files /\ files[name].partial)
        THEN /\ last' = [NoLast EXCEPT !.op = "LoadCheckpoint", !.given = name, !.err = TRUE]
             /\ UNCHANGED <<gridResolution, gridBounds, heap, programs, islands, globalBest,
                            globalBestScore, currentIsland, lastMigrationGeneration, stats,
                            movedOut, unsetIds, nMigrations, fsVars, runVars>>
        ELSE LET checkpoint == files[name].checkpoint
                 loaded == ProgramsIn(checkpoint)
             IN /\ programs' = LoadedIndex(checkpoint)
                /\ heap' = [id \in DOMAIN heap |->
                               IF \E v \in loaded : v.ID = id
                               THEN CHOOSE v \in loaded : v.ID = id
                               ELSE heap[id]]
                /\ islands' = [i \in DOMAIN checkpoint.Islands |->
                                  LoadIsland(i, checkpoint.Islands[i])]
                /\ globalBest' = IF checkpoint.GlobalBest = << >> THEN Nil
                                 ELSE checkpoint.GlobalBest[1].ID
                /\ globalBestScore' = IF checkpoint.GlobalBest = << >> THEN globalBestScore
                                      ELSE checkpoint.GlobalBest[1].Score
                /\ stats' = checkpoint.Stats
                /\ last' = [NoLast EXCEPT !.op = "LoadCheckpoint", !.given = name]
                /\ UNCHANGED <<gridResolution, gridBounds, currentIsland, lastMigrationGeneration,
                               movedOut, unsetIds, nMigrations, fsVars, runVars>>

NextCheckpoint ==
    \/ Next
    \/ SaveCheckpoint
    \/ LoadCheckpoint

SpecCheckpoint == Init /\ [][NextCheckpoint]_vars

\* the store with or without a checkpoint directory, on a file system that can fail
InitCheckpointFaults ==
    /\ New(GridResolution)
    /\ \E dir \in {"", CheckpointDirName} : NewCheckpointDir(dir)
    /\ NewWorkerPool
    /\ NewCascadeEvaluator(DefaultCascadeStages)
    /\ NewIterationWorker
    /\ NewEnsemble(DefaultModels)
    /\ NewOpenAIClient(DefaultRetries)
    /\ NoneScheduled

\* programs are added until the first SaveCheckpoint call
AddBeforeSave ==
    /\ last.op # "SaveCheckpoint"
    /\ (AddProgramWithIsland \/ AddProgramUnset)

NextCheckpointFaults ==
    \/ AddBeforeSave
    \/ SaveCheckpointFaulty

SpecCheckpointFaults == InitCheckpointFaults /\ [][NextCheckpointFaults]_vars

\* AddProgram of a program with a feature, on the island the caller names
AddProgramOnIsland ==
    \E score \in Scores, islandID \in IslandIDs :
        AddProgram(score, <<ROne>>, islandID, FALSE, 0) /\ UNCHANGED outsideVars

\* inserts, saves that can fail part-way, and loads of what they left
NextLoad ==
    \/ AddProgramOnIsland
    \/ SaveCheckpointFaulty
    \/ LoadCheckpoint

SpecLoad == InitCheckpointFaults /\ [][NextLoad]_vars

\* the store on a grid of resolution 1
InitSmallGrid == New(SmallGridResolution) /\ InitOutside

SpecSmallGrid == InitSmallGrid /\ [][Next]_vars

\* -------------------------------------------------------------- worker pool
\* evaluator.go.  Every goroutine is followed from one blocking point to the
\* next; a select with several ready cases takes any of them.  A panic ends
\* the process: nothing moves afterwards.
JobsCapacity == MaxWorkers * 2

\* Start: go wp.worker(i) for every worker
Start ==
    /\ ~panicked
    /\ ~wp.started
    /\ wp' = [wp EXCEPT !.started = TRUE]
    /\ workers' = [w \in Workers |-> [workers[w] EXCEPT !.pc = "select"]]
    /\ UNCHANGED <<callers, panicked>>
    /\ UNCHANGED notPoolVars

\* worker, case job := <-wp.jobs with a job in the channel
WorkerTakesJob(w) ==
    /\ ~panicked
    /\ workers[w].pc = "select"
    /\ wp.jobs # << >>
    /\ workers' = [workers EXCEPT ![w] = [pc |-> "processJob", job |-> Head(wp.jobs),
                                          success |-> FALSE]]
    /\ wp' = [wp EXCEPT !.jobs = Tail(@)]
    /\ UNCHANGED <<callers, panicked>>
    /\ UNCHANGED notPoolVars

\* worker, case job := <-wp.jobs on the closed and drained channel: job == nil
WorkerSeesClosedJobs(w) ==
    /\ ~panicked
    /\ workers[w].pc = "select"
    /\ wp.jobs = << >>
    /\ wp.jobsClosed
    /\ workers' = [workers EXCEPT ![w].pc = "returned"]
    /\ UNCHANGED <<wp, callers, panicked>>
    /\ UNCHANGED notPoolVars

\* worker, case <-wp.ctx.Done() of either select
WorkerSeesCtxDone(w) ==
    /\ ~panicked
    /\ workers[w].pc \in {"select", "send"}
    /\ wp.ctxDone
    /\ workers' = [workers EXCEPT ![w].pc = "returned"]
    /\ UNCHANGED <<wp, callers, panicked>>
    /\ UNCHANGED notPoolVars

\* processJob: the evaluation runs under the job's context, so it cannot
\* succeed when that context is already cancelled
WorkerProcessesJob(w) ==
    /\ ~panicked
    /\ workers[w].pc = "processJob"
    /\ \E success \in (IF callers[workers[w].job].ctxDone THEN {FALSE} ELSE BOOLEAN) :
          workers' = [workers EXCEPT ![w].pc = "send", ![w].success = success]
    /\ callers' = [callers EXCEPT ![workers[w].job].ran = TRUE]
    /\ UNCHANGED <<wp, panicked>>
    /\ UNCHANGED notPoolVars

\* worker, case job.ResultChan <- result (the channel has room for the one result)
WorkerSendsResult(w) ==
    /\ ~panicked
    /\ workers[w].pc = "send"
    /\ callers[workers[w].job].ResultChan = << >>
    /\ callers' = [callers EXCEPT ![workers[w].job].ResultChan = <<workers[w].success>>]
    /\ workers' = [workers EXCEPT ![w] = [pc |-> "select", job |-> Nil, success |-> FALSE]]
    /\ UNCHANGED <<wp, panicked>>
    /\ UNCHANGED notPoolVars

\* a caller enters Evaluate
EvaluateCalled(c) ==
    /\ ~panicked
    /\ callers[c].pc = "not called"
    /\ callers' = [callers EXCEPT ![c].pc = "submit", ![c].afterStop = (wp.stop = "returned")]
    /\ UNCHANGED <<wp, workers, panicked>>
    /\ UNCHANGED notPoolVars

\* Evaluate, case e.workerPool.jobs <- job on the open channel
JobSubmitted(c) ==
    /\ ~panicked
    /\ callers[c].pc = "submit"
    /\ ~wp.jobsClosed
    /\ Len(wp.jobs) < JobsCapacity
    /\ wp' = [wp EXCEPT !.jobs = Append(@, c)]
    /\ callers' = [callers EXCEPT ![c].pc = "wait", ![c].submitted = TRUE]
    /\ UNCHANGED <<workers, panicked>>
    /\ UNCHANGED notPoolVars

\* Evaluate, case e.workerPool.jobs <- job on the closed channel: send on closed channel
SubmitPanics(c) ==
    /\ ~panicked
    /\ callers[c].pc = "submit"
    /\ wp.jobsClosed
    /\ panicked' = TRUE
    /\ callers' = [callers EXCEPT ![c].pc = "panicked"]
    /\ UNCHANGED <<wp, workers>>
    /\ UNCHANGED notPoolVars

\* Evaluate, case <-ctx.Done() of either select: return nil, ctx.Err()
CallerSeesCtxDone(c) ==
    /\ ~panicked
    /\ callers[c].pc \in {"submit", "wait"}
    /\ callers[c].ctxDone
    /\ callers' = [callers EXCEPT ![c].pc = "returned",
                                  ![c].ret = [kind |-> "ctx.Err", success |-> FALSE,
                                              cancelled |-> TRUE]]
    /\ UNCHANGED <<wp, workers, panicked>>
    /\ UNCHANGED notPoolVars

\* Evaluate, case result := <-resultChan: return result, nil
CallerReceivesResult(c) ==
    /\ ~panicked
    /\ callers[c].pc = "wait"
    /\ callers[c].ResultChan # << >>
    /\ callers' = [callers EXCEPT ![c].pc = "returned",
                                  ![c].ResultChan = << >>,
                                  ![c].ret = [kind |-> "result",
                                              success |-> callers[c].ResultChan[1],
                                              cancelled |-> callers[c].ctxDone \/ wp.ctxDone]]
    /\ UNCHANGED <<wp, workers, panicked>>
    /\ UNCHANGED notPoolVars

\* the caller's context is cancelled
CallerCancels(c) ==
    /\ ~panicked
    /\ callers[c].pc \in {"submit", "wait"}
    /\ ~callers[c].ctxDone
    /\ callers' = [callers EXCEPT ![c].ctxDone = TRUE]
    /\ UNCHANGED <<wp, workers, panicked>>
    /\ UNCHANGED notPoolVars

\* Stop: wp.cancel()
StopCancels ==
    /\ ~panicked
    /\ wp.stop = "not called"
    /\ wp' = [wp EXCEPT !.ctxDone = TRUE, !.stop = "cancelled"]
    /\ UNCHANGED <<workers, callers, panicked>>
    /\ UNCHANGED notPoolVars

\* Stop: close(wp.jobs)
StopClosesJobs ==
    /\ ~panicked
    /\ wp.stop = "cancelled"
    /\ wp' = [wp EXCEPT !.jobsClosed = TRUE, !.stop = "closed jobs"]
    /\ UNCHANGED <<workers, callers, panicked>>
    /\ UNCHANGED notPoolVars

\* Stop: wp.wg.Wait(); close(wp.results)
StopReturns ==
    /\ ~panicked
    /\ wp.stop = "closed jobs"
    /\ \A w \in Workers : workers[w].pc \in {"not started", "returned"}
    /\ wp' = [wp EXCEPT !.resultsClosed = TRUE, !.stop = "returned"]
    /\ UNCHANGED <<workers, callers, panicked>>
    /\ UNCHANGED notPoolVars

NextPool ==
    \/ Start
    \/ \E w \in Workers : WorkerTakesJob(w)
    \/ \E w \in Workers : WorkerSeesClosedJobs(w)
    \/ \E w \in Workers : WorkerSeesCtxDone(w)
    \/ \E w \in Workers : WorkerProcessesJob(w)
    \/ \E w \in Workers : WorkerSendsResult(w)
    \/ \E c \in Callers : EvaluateCalled(c)
    \/ \E c \in Callers : JobSubmitted(c)
    \/ \E c \in Callers : SubmitPanics(c)
    \/ \E c \in Callers : CallerSeesCtxDone(c)
    \/ \E c \in Callers : CallerReceivesResult(c)
    \/ \E c \in Callers : CallerCancels(c)
    \/ StopCancels
    \/ StopClosesJobs
    \/ StopReturns

SpecPool == Init /\ [][NextPool]_vars

\* the steps of worker goroutine w
WorkerStep(w) ==
    \/ WorkerTakesJob(w)
    \/ WorkerSeesClosedJobs(w)
    \/ WorkerSeesCtxDone(w)
    \/ WorkerProcessesJob(w)
    \/ WorkerSendsResult(w)

\* the goroutines of the pool are scheduled: a started worker that can take a
\* step takes one, and so does the goroutine inside Stop
SpecPoolFair ==
    /\ SpecPool
    /\ \A w \in Workers : WF_vars(WorkerStep(w))
    /\ WF_vars(StopClosesJobs)
    /\ WF_vars(StopReturns)

\* ------------------------------------------------------- cascade evaluator
\* CascadeEvaluator.Evaluate (worker.go from line 426): one action per pass of
\* the loop over ce.stages, by what runStage returned, and one for the return
\* after the loop.  failure_stage "" is the absent artifact.
InitCascade ==
    /\ New(GridResolution)
    /\ NewCheckpointDir(CheckpointDirName)
    /\ NewWorkerPool
    /\ NewIterationWorker
    /\ NewEnsemble(DefaultModels)
    /\ NewOpenAIClient(DefaultRetries)
    /\ NoneScheduled
    /\ \E stageList \in StageConfigs : NewCascadeEvaluator(stageList)

InLoop == ~cascade.returned /\ cascade.i <= Len(stages)

\* runStage returned an error: Evaluate returns the result with it
StageError(outcome) ==
    LET stage == stages[cascade.i]
    IN [cascade EXCEPT
           !.result.Error = TRUE,
           !.result.failure_stage = stage.Name,
           !.returned = TRUE,
           !.err = TRUE,
           !.executed = Append(@, [name |-> stage.Name, outcome |-> outcome,
                                   score |-> 0, accepted |-> FALSE])]

\* runStage: stageCtx.Err() == context.DeadlineExceeded
StageTimesOut ==
    /\ InLoop
    /\ cascade' = StageError("timeout")
    /\ UNCHANGED stages
    /\ UNCHANGED notCascadeVars

\* runStage: cmd.CombinedOutput() returned an error
StageFailsToExecute ==
    /\ InLoop
    /\ cascade' = StageError("execution failed")
    /\ UNCHANGED stages
    /\ UNCHANGED notCascadeVars

\* variant of ReturnsOnThresholdFailure: no threshold failure ends the cascade
ReturnsOnThresholdFailureNever(stage) == FALSE

\* if stage.Critical { return result, fmt.Errorf(...) }
ReturnsOnThresholdFailure(stage) == stage.Critical

\* runStage returned a score: the threshold check and the update of the result
StageReturnsScore ==
    \E score \in StageScoreOutputs :
        LET stage == stages[cascade.i]
            below == score < stage.Threshold
            checked == IF below
                       THEN [cascade.result EXCEPT !.Success = FALSE,
                                                   !.Score = score,
                                                   !.Error = TRUE,
                                                   !.failure_stage = stage.Name,
                                                   !.threshold_failed = TRUE]
                       ELSE cascade.result
            ran == Append(cascade.executed, [name |-> stage.Name, outcome |-> "score",
                                             score |-> score, accepted |-> ~below])
        IN /\ InLoop
           /\ IF below /\ ReturnsOnThresholdFailure(stage)
              THEN cascade' = [cascade EXCEPT !.result = checked, !.returned = TRUE,
                                              !.err = TRUE, !.executed = ran]
              ELSE cascade' = [cascade EXCEPT
                                  !.result = IF score > checked.Score
                                             THEN [checked EXCEPT !.Score = score]
                                             ELSE checked,
                                  !.i = @ + 1,
                                  !.executed = ran]
           /\ UNCHANGED stages
           /\ UNCHANGED notCascadeVars

\* after the loop: result.Success = true; return result, nil
CascadeReturns ==
    /\ ~cascade.returned
    /\ cascade.i > Len(stages)
    /\ cascade' = [cascade EXCEPT !.result.Success = TRUE, !.returned = TRUE]
    /\ UNCHANGED stages
    /\ UNCHANGED notCascadeVars

NextCascade ==
    \/ StageTimesOut
    \/ StageFailsToExecute
    \/ StageReturnsScore
    \/ CascadeReturns

SpecCascade == InitCascade /\ [][NextCascade]_vars

\* --------------------------------------------------------- iteration worker
\* RunIteration (worker.go:69-178), one action per step; iter.pc names the
\* step about to run.  The evaluator and the oracle are seen through what
\* they return.  The inspirations of SampleMultiple(3) go into the prompt
\* only and are not kept.  The store is written by other callers only
\* between two RunIteration calls of this worker.
StoreState ==
    <<heap, programs, islands, globalBest, globalBestScore, currentIsland,
      lastMigrationGeneration, stats>>

\* variant of Then: the child is inserted before it is evaluated
ThenInsertFirst(step) ==
    CASE step = "sample" -> "prompt"
      [] step = "prompt" -> "oracle"
      [] step = "oracle" -> "parse"
      [] step = "parse" -> "length"
      [] step = "length" -> "insert"
      [] step = "insert" -> "evaluate"
      [] step = "evaluate" -> "done"

\* the step that follows a step that did not fail
Then(step) ==
    CASE step = "sample" -> "prompt"
      [] step = "prompt" -> "oracle"
      [] step = "oracle" -> "parse"
      [] step = "parse" -> "length"
      [] step = "length" -> "evaluate"
      [] step = "evaluate" -> "insert"
      [] step = "insert" -> "done"

\* the step succeeded
Proceed(step) == [iter EXCEPT !.pc = Then(step), !.steps = Append(@, step)]

\* the step failed: return nil, err
Fail(step) == [iter EXCEPT !.pc = "failed", !.steps = Append(@, step)]

\* a caller enters RunIteration
RunIterationCalled ==
    /\ iter.pc = "idle"
    /\ Cardinality(DOMAIN heap) < MaxPrograms
    /\ iter' = [pc |-> "sample", parent |-> Nil, child |-> Nil, score |-> 0, steps |-> << >>,
                before |-> StoreState]
    /\ UNCHANGED <<dbVars, notIterVars>>

\* samplePrograms: the parent from the cursor's island, else from the first
\* island of 0..N-1 that yields one
SampleParent ==
    LET succeeded(rs) == {r \in rs : ~r[2]}
        yielding == {i \in IslandIDs : succeeded(SampleFromIsland(i)) # {}}
    IN IF succeeded(SampleFromIsland(currentIsland)) # {}
       THEN succeeded(SampleFromIsland(currentIsland))
       ELSE IF yielding # {}
            THEN succeeded(SampleFromIsland(CHOOSE i \in yielding :
                                               \A j \in yielding : i <= j))
            ELSE {<<Nil, TRUE>>}

SamplePrograms ==
    /\ iter.pc = "sample"
    /\ \E r \in SampleParent :
          iter' = IF r[2] THEN Fail("sample")
                  ELSE [Proceed("sample") EXCEPT !.parent = r[1]]
    /\ UNCHANGED <<dbVars, notIterVars>>

\* buildPrompt never fails
BuildPrompt ==
    /\ iter.pc = "prompt"
    /\ iter' = Proceed("prompt")
    /\ UNCHANGED <<dbVars, notIterVars>>

\* llmEnsemble.Generate returns a response, or an error (cancellation included)
Generate ==
    /\ iter.pc = "oracle"
    /\ \E ok \in BOOLEAN : iter' = IF ok THEN Proceed("oracle") ELSE Fail("oracle")
    /\ UNCHANGED <<dbVars, notIterVars>>

\* applyDiffs or parseFullRewrite: code, or a parse error, or no code
ParseResponse ==
    /\ iter.pc = "parse"
    /\ \E ok \in BOOLEAN : iter' = IF ok THEN Proceed("parse") ELSE Fail("parse")
    /\ UNCHANGED <<dbVars, notIterVars>>

\* len(childCode) > iw.getMaxCodeLength()
CheckLength ==
    /\ iter.pc = "length"
    /\ \E ok \in BOOLEAN : iter' = IF ok THEN Proceed("length") ELSE Fail("length")
    /\ UNCHANGED <<dbVars, notIterVars>>

\* evaluator.Evaluate returns a result with a score, or an error (cancellation included)
EvaluateChild ==
    /\ iter.pc = "evaluate"
    /\ \/ \E score \in Scores : iter' = [Proceed("evaluate") EXCEPT !.score = score]
       \/ iter' = Fail("evaluate")
    /\ UNCHANGED <<dbVars, notIterVars>>

\* extractFeatures: the score and the duration in seconds
extractFeatures(score) == <<RNorm(<<score, 10>>), RZero>>

\* the child is assembled and handed to db.AddProgram
InsertChild ==
    /\ iter.pc = "insert"
    /\ AddProgram(iter.score, extractFeatures(iter.score), heap[iter.parent].IslandID, FALSE,
                  heap[iter.parent].Generation + 1)
    /\ iter' = [Proceed("insert") EXCEPT !.child = Cardinality(DOMAIN heap) + 1]
    /\ UNCHANGED notIterVars

\* RunIteration has returned
RunIterationReturns ==
    /\ iter.pc \in {"done", "failed"}
    /\ iter' = [pc |-> "idle", parent |-> Nil, child |-> Nil, score |-> 0, steps |-> << >>,
                before |-> << >>]
    /\ UNCHANGED <<dbVars, notIterVars>>

\* another caller writes the store while this worker is between two calls
StoreWrittenBetweenCalls ==
    /\ iter.pc = "idle"
    /\ Next

NextIteration ==
    \/ StoreWrittenBetweenCalls
    \/ RunIterationCalled
    \/ SamplePrograms
    \/ BuildPrompt
    \/ Generate
    \/ ParseResponse
    \/ CheckLength
    \/ EvaluateChild
    \/ InsertChild
    \/ RunIterationReturns

SpecIteration == Init /\ [][NextIteration]_vars

\* --------------------------------------------------------------- generations
\* UpdateGeneration: every island's generation counter goes up by one, and a
\* MigratePrograms goroutine is started when the interval has passed
UpdateGeneration ==
    LET updated == [i \in IslandIDs |-> [islands[i] EXCEPT !.Generation = @ + 1]]
        due == updated[0].Generation - lastMigrationGeneration >= MigrationInterval
    IN /\ islands[0].Generation < MaxGenerations
       /\ islands' = updated
       /\ scheduled' = IF due
                       THEN [pending |-> scheduled.pending + 1,
                             at |-> Append(scheduled.at, updated[0].Generation)]
                       ELSE scheduled
       /\ UNCHANGED <<mu, migration, readers>>
       /\ last' = [NoLast EXCEPT !.op = "UpdateGeneration"]
       /\ UNCHANGED <<gridResolution, gridBounds, heap, programs, globalBest,
                      globalBestScore, currentIsland, lastMigrationGeneration, stats,
                      movedOut, unsetIds, nMigrations>>
       /\ UNCHANGED <<fsVars, poolVars, cascadeVars, iterVars, llmVars>>

\* a goroutine UpdateGeneration started runs MigratePrograms
ScheduledMigrationRuns ==
    /\ scheduled.pending > 0
    /\ scheduled' = [scheduled EXCEPT !.pending = @ - 1]
    /\ UNCHANGED <<mu, migration, readers>>
    /\ MigrateProgramsStore
    /\ UNCHANGED <<fsVars, poolVars, cascadeVars, iterVars, llmVars>>

NextGeneration ==
    \/ AddProgramWithIsland
    \/ AddProgramUnset
    \/ UpdateGeneration
    \/ ScheduledMigrationRuns

SpecGeneration == Init /\ [][NextGeneration]_vars

\* ------------------------------------------------------------- the store lock
\* variant of CanRLock: a reader does not wait for the writer
CanRLockAlways(m) == TRUE

\* db.mu.RLock() returns: no writer holds the lock
CanRLock(m) == m.writer = ""

\* db.mu.Lock() returns: nobody holds the lock
CanLock(m) == m.writer = "" /\ m.readers = {}

\* what the lock steps and the statements of MigratePrograms leave alone
notLockVars == <<fsVars, poolVars, cascadeVars, iterVars, llmVars, scheduled>>

\* AddProgram, which takes the lock on entry and releases it on return
AddProgramLocked ==
    /\ CanLock(mu)
    /\ \E score \in Scores, features \in FeatureInputs, islandID \in -1..NumIslands :
          AddProgram(score, features, islandID, FALSE, 0)
    /\ UNCHANGED <<mu, migration, readers, notLockVars>>

\* MigratePrograms: db.mu.Lock(), and the return for fewer than two islands
MigrateLocks ==
    /\ migration.pc = "idle"
    /\ nMigrations < MaxMigrations
    /\ CanLock(mu)
    /\ mu' = [mu EXCEPT !.writer = "MigratePrograms"]
    /\ migration' = [NoMigration EXCEPT !.pc = IF NumIslands < 2 THEN "unlock" ELSE "island"]
    /\ nMigrations' = nMigrations + 1
    /\ UNCHANGED <<gridResolution, gridBounds, heap, programs, islands, globalBest,
                   globalBestScore, currentIsland, lastMigrationGeneration, stats, last,
                   movedOut, unsetIds, readers, notLockVars>>

\* the head of the outer loop: the candidates of island i, in map order
MigrateCollects ==
    /\ migration.pc = "island"
    /\ migration.i < NumIslands
    /\ LET candidates == Candidates(islands[migration.i], heap)
           k == Min2(ToMigrate(Cardinality(candidates)), Cardinality(candidates))
       IN \E order \in Orders(candidates, k) :
             migration' = [migration EXCEPT !.pc = "delete", !.order = order, !.j = 1]
    /\ UNCHANGED <<dbVars, mu, readers, notLockVars>>

\* delete(island.Programs, program.ID), or the end of the inner loop
MigrateDeletes ==
    /\ migration.pc = "delete"
    /\ IF migration.j <= Len(migration.order)
       THEN /\ islands' = [islands EXCEPT ![migration.i].Programs =
                                             @ \ {migration.order[migration.j]}]
            /\ migration' = [migration EXCEPT !.pc = "insert",
                                              !.inFlight = migration.order[migration.j]]
       ELSE /\ islands' = [islands EXCEPT ![migration.i].Migrated = @ + migration.migrated]
            /\ migration' = [migration EXCEPT !.pc = "island", !.i = @ + 1]
    /\ UNCHANGED <<gridResolution, gridBounds, heap, programs, globalBest, globalBestScore,
                   currentIsland, lastMigrationGeneration, stats, last, movedOut, unsetIds,
                   nMigrations, mu, readers, notLockVars>>

\* program.IslandID = targetIsland.ID; targetIsland.Programs[program.ID] =
\* program; targetIsland.AddToGrid(program); migrated++
MigrateInserts ==
    /\ migration.pc = "insert"
    /\ LET id == migration.inFlight
           t == (migration.i + 1) % NumIslands
           h2 == [heap EXCEPT ![id].IslandID = islands[t].ID]
           dst == [islands[t] EXCEPT !.Programs = @ \cup {id}]
       IN /\ heap' = h2
          /\ islands' = [islands EXCEPT ![t] = AddToGrid(dst, id, h2).isl]
    /\ migration' = [migration EXCEPT !.pc = "delete", !.j = @ + 1, !.migrated = @ + 1,
                                      !.inFlight = Nil]
    /\ UNCHANGED <<gridResolution, gridBounds, programs, globalBest, globalBestScore,
                   currentIsland, lastMigrationGeneration, stats, last, movedOut, unsetIds,
                   nMigrations, mu, readers, notLockVars>>

\* after the outer loop: db.lastMigrationGeneration = db.islands[0].Generation
MigrateRecords ==
    /\ migration.pc = "island"
    /\ migration.i >= NumIslands
    /\ lastMigrationGeneration' = islands[0].Generation
    /\ migration' = [migration EXCEPT !.pc = "unlock"]
    /\ UNCHANGED <<gridResolution, gridBounds, heap, programs, islands, globalBest,
                   globalBestScore, currentIsland, stats, last, movedOut, unsetIds,
                   nMigrations, mu, readers, notLockVars>>

\* the deferred db.mu.Unlock()
MigrateUnlocks ==
    /\ migration.pc = "unlock"
    /\ mu' = [mu EXCEPT !.writer = ""]
    /\ migration' = NoMigration
    /\ UNCHANGED <<dbVars, readers, notLockVars>>

\* a reader (GetProgram, SampleFromIsland, SampleMultiple, GetStats,
\* SaveCheckpoint): db.mu.RLock()
ReaderLocks(r) ==
    /\ readers[r].pc = "idle"
    /\ CanRLock(mu)
    /\ mu' = [mu EXCEPT !.readers = @ \cup {r}]
    /\ readers' = [readers EXCEPT ![r].pc = "reading"]
    /\ UNCHANGED <<dbVars, migration, notLockVars>>

\* the reader looks at the index and at the program maps of the islands: the
\* programs of the index it finds in no island
ReaderReads(r) ==
    /\ readers[r].pc = "reading"
    /\ readers' = [readers EXCEPT
                      ![r] = [pc |-> "read",
                              absent |-> {id \in programs :
                                            \A i \in IslandIDs : id \notin islands[i].Programs}]]
    /\ UNCHANGED <<dbVars, mu, migration, notLockVars>>

\* the deferred db.mu.RUnlock()
ReaderUnlocks(r) ==
    /\ readers[r].pc = "read"
    /\ mu' = [mu EXCEPT !.readers = @ \ {r}]
    /\ readers' = [readers EXCEPT ![r] = [pc |-> "idle", absent |-> {}]]
    /\ UNCHANGED <<dbVars, migration, notLockVars>>

NextLock ==
    \/ AddProgramLocked
    \/ MigrateLocks
    \/ MigrateCollects
    \/ MigrateDeletes
    \/ MigrateInserts
    \/ MigrateRecords
    \/ MigrateUnlocks
    \/ \E r \in Readers : ReaderLocks(r)
    \/ \E r \in Readers : ReaderReads(r)
    \/ \E r \in Readers : ReaderUnlocks(r)

SpecLock == Init /\ [][NextLock]_vars

\* ----------------------------------------------------------------- cell keys
\* grid configurations and feature vectors calculateCellKey is called with
KeyResolutions == {[d \in {"complexity"} |-> r] : r \in {1, 2, 5}}
KeyBounds == {[d \in {"complexity"} |-> b] :
                 b \in {<< <<0, 1>>, <<1, 1>> >>, << <<0, 1>>, <<10, 1>> >>,
                        << <<-5, 1>>, <<5, 1>> >>}}
KeyFeatures == {<< >>} \cup
               {<<RNorm(<<n, 4>>)>> : n \in {-24, -20, -1, 0, 1, 2, 3, 4, 10, 19, 20, 39, 40, 44}}

\* island.calculateCellKey(features) on an island of the store
CalculateCellKeyCall ==
    /\ \E features \in KeyFeatures :
          last' = [NoLast EXCEPT !.op = "calculateCellKey", !.features = features,
                                 !.result = calculateCellKey(features)]
    /\ UNCHANGED <<gridResolution, gridBounds, heap, programs, islands, globalBest,
                   globalBestScore, currentIsland, lastMigrationGeneration, stats,
                   movedOut, unsetIds, nMigrations, outsideVars>>

InitCellKey ==
    /\ \E resolution \in KeyResolutions, bounds \in KeyBounds : NewOn(resolution, bounds)
    /\ InitOutside

NextCellKey == CalculateCellKeyCall

SpecCellKey == InitCellKey /\ [][NextCellKey]_vars

\* ---------------------------------------------------------- feature statistics
\* feature vectors of the grid's arity
StatsFeatures == {<<RZero>>, <<RHalf>>, <<ROne>>}

\* AddProgram of a program with one feature per grid dimension
AddProgramWithFeatures ==
    \E score \in Scores, features \in StatsFeatures, islandID \in IslandIDs :
        AddProgram(score, features, islandID, FALSE, 0) /\ UNCHANGED outsideVars

NextStats == AddProgramWithFeatures

SpecStats == Init /\ [][NextStats]_vars

\* feature vectors of every arity from none to one more than the grid has
\* dimensions
ArityFeatures ==
    UNION {[1..n -> {RZero, RHalf, ROne}] : n \in 0..(Len(GridDimensions) + 1)}

\* island.calculateCellKey for the features of two programs
CalculateCellKeyPair ==
    /\ \E f1 \in ArityFeatures, f2 \in ArityFeatures :
          last' = [NoLast EXCEPT !.op = "calculateCellKeyPair", !.features = <<f1, f2>>,
                                 !.result = <<calculateCellKey(f1), calculateCellKey(f2)>>]
    /\ UNCHANGED <<gridResolution, gridBounds, heap, programs, islands, globalBest,
                   globalBestScore, currentIsland, lastMigrationGeneration, stats,
                   movedOut, unsetIds, nMigrations, outsideVars>>

NextArity == CalculateCellKeyPair

SpecArity == Init /\ [][NextArity]_vars

\* ------------------------------------------------------------ score parsing
\* What an evaluator program prints, line by line.  A line is "SCORE: <float>"
\* (kind "score"), "SCORE: " followed by no float ("scorebad"), a bare number
\* ("number") or other text ("text"); v is the float in tenths.  json says
\* whether the whole output is a JSON object, with or without a score field.
NoScore == -10

OutputLines ==
    {[kind |-> "score", v |-> 5], [kind |-> "score", v |-> 9], [kind |-> "scorebad", v |-> 0],
     [kind |-> "number", v |-> 7], [kind |-> "text", v |-> 0]}

Outputs ==
    {[json |-> "none", v |-> 0, lines |-> ls] :
        ls \in UNION {[1..n -> OutputLines] : n \in 0..MaxLines}}
    \cup {[json |-> "score", v |-> 8, lines |-> <<[kind |-> "text", v |-> 0]>>],
          [json |-> "noscore", v |-> 0, lines |-> <<[kind |-> "text", v |-> 0]>>]}

\* len(line) > 7 && line[:7] == "SCORE: " and Sscanf(line[7:], "%f") succeeds,
\* for the one element of lines := []string{output}: the output begins with
\* "SCORE: <float>"
BeginsWithScore(output) ==
    Len(output.lines) > 0 /\ output.lines[1].kind = "score"

\* CascadeEvaluator.parseScoreOutput
parseScoreOutput(output) ==
    IF BeginsWithScore(output) THEN output.lines[1].v ELSE NoScore

\* WorkerPool.parseScoreOutput: the score field of a JSON object, else the
\* SCORE: pattern, else Sscanf(line, "%f") on the whole output
poolParseScoreOutput(output) ==
    IF output.json = "score" THEN output.v
    ELSE IF BeginsWithScore(output) THEN output.lines[1].v
    ELSE IF Len(output.lines) > 0 /\ output.lines[1].kind = "number" THEN output.lines[1].v
    ELSE NoScore

\* runStage on a program that ran and printed output: the score and
\* result.Success
RunStageParses ==
    /\ \E output \in Outputs :
          LET score == parseScoreOutput(output)
          IN last' = [NoLast EXCEPT !.op = "parseScoreOutput", !.features = output,
                                    !.result = [Score |-> score, Success |-> score >= 0,
                                                pool |-> poolParseScoreOutput(output)]]
    /\ UNCHANGED <<gridResolution, gridBounds, heap, programs, islands, globalBest,
                   globalBestScore, currentIsland, lastMigrationGeneration, stats,
                   movedOut, unsetIds, nMigrations, outsideVars>>

NextParse == RunStageParses

SpecParse == Init /\ [][NextParse]_vars

\* ------------------------------------------------------------ model ensemble
\* the values rand.Float64 can return, in [0, 1)
DrawDen == 12
Draws == {RNorm(<<k, DrawDen>>) : k \in 0..(DrawDen - 1)}

RAdd(a, b) == RNorm(<<a[1] * b[2] + b[1] * a[2], a[2] * b[2]>>)

\* variant of Reaches: the cumulative weight must exceed r
ReachesStrictly(r, cumulative) == RLess(r, cumulative)

\* r <= cumulative
Reaches(r, cumulative) == ~RLess(cumulative, r)

\* the loop of selectClient from client i on, with the weight summed so far;
\* clients are numbered from 1, and the last one is the fallback
RECURSIVE SelectFrom(_, _, _, _)
SelectFrom(weights, r, i, cumulative) ==
    IF i > Len(weights) THEN Len(weights)
    ELSE IF Reaches(r, RAdd(cumulative, weights[i])) THEN i
    ELSE SelectFrom(weights, r, i + 1, RAdd(cumulative, weights[i]))

\* selectClient on the ensemble NewEnsemble returned
selectClient ==
    /\ ~ensemble.err
    /\ \E r \in Draws :
          ensemble' = [ensemble EXCEPT
                          !.selected = [r |-> r,
                                        client |-> SelectFrom(ensemble.weights, r, 1, RZero)]]
    /\ UNCHANGED <<oracle, notLlmVars>>

InitEnsemble ==
    /\ New(GridResolution)
    /\ NewCheckpointDir(CheckpointDirName)
    /\ NewWorkerPool
    /\ NewCascadeEvaluator(DefaultCascadeStages)
    /\ NewIterationWorker
    /\ \E configs \in EnsembleConfigs : NewEnsemble(configs)
    /\ NewOpenAIClient(DefaultRetries)
    /\ NoneScheduled

NextEnsemble == selectClient

SpecEnsemble == InitEnsemble /\ [][NextEnsemble]_vars

\* selectClient called from the goroutines of GenerateMultiple, statement by
\* statement.  e.mu is only ever taken with RLock, which any number of
\* goroutines hold together.
\* e.mu.RLock()
SelectRLocks(g) ==
    /\ ~ensemble.err
    /\ ensemble.go.pc[g] = "idle"
    /\ ensemble.go.client[g] = 0
    /\ ensemble' = [ensemble EXCEPT !.go.pc[g] = "locked", !.go.rlocked = @ \cup {g}]
    /\ UNCHANGED <<oracle, notLlmVars>>

\* the call e.rand.Float64() is entered: the goroutine reads and writes the
\* state of the generator until it returns
SelectEntersFloat64(g) ==
    /\ ensemble.go.pc[g] = "locked"
    /\ ensemble' = [ensemble EXCEPT !.go.pc[g] = "Float64"]
    /\ UNCHANGED <<oracle, notLlmVars>>

\* e.rand.Float64() returns r, the loop picks the client, and the deferred
\* e.mu.RUnlock() runs
SelectReturns(g) ==
    /\ ensemble.go.pc[g] = "Float64"
    /\ \E r \in Draws :
          ensemble' = [ensemble EXCEPT
                          !.go.pc[g] = "idle",
                          !.go.rlocked = @ \ {g},
                          !.go.client[g] = SelectFrom(ensemble.weights, r, 1, RZero)]
    /\ UNCHANGED <<oracle, notLlmVars>>

NextSelect ==
    \/ \E g \in Goroutines : SelectRLocks(g)
    \/ \E g \in Goroutines : SelectEntersFloat64(g)
    \/ \E g \in Goroutines : SelectReturns(g)

SpecSelect == InitEnsemble /\ [][NextSelect]_vars

\* -------------------------------------------------------------- oracle client
\* the values of config.Retries
RetriesConfigs == (-1)..MaxRetries

\* what makeRequest can answer with: 200, or a status that is an HTTPError
Statuses == {200, 400, 401, 403, 429, 500}
NonRetriable == {400, 401, 403}

getOrDefaultInt(value, defaultValue) == IF value = 0 THEN defaultValue ELSE value

maxRetries == getOrDefaultInt(oracle.Retries, DefaultRetries)

\* the head of the retry loop: the loop ends, or the next attempt begins, with
\* the wait before every attempt but the first
LoopHead(o, attempt) ==
    IF attempt > maxRetries
    THEN [o EXCEPT !.pc = "returned", !.ret = "max retries", !.attempt = attempt]
    ELSE [o EXCEPT !.pc = (IF attempt > 0 THEN "wait" ELSE "request"), !.attempt = attempt]

\* GenerateWithSystemMessage is called
GenerateCalled ==
    /\ oracle.pc = "idle"
    /\ oracle' = LoopHead(oracle, 0)
    /\ UNCHANGED <<ensemble, notLlmVars>>

\* the caller's context is cancelled or its deadline passes
OracleCtxCancelled ==
    /\ oracle.pc \in {"wait", "request"}
    /\ ~oracle.ctxDone
    /\ oracle' = [oracle EXCEPT !.ctxDone = TRUE]
    /\ UNCHANGED <<ensemble, notLlmVars>>

\* the select between attempts, case <-ctx.Done()
WaitSeesCtxDone ==
    /\ oracle.pc = "wait"
    /\ oracle.ctxDone
    /\ oracle' = [oracle EXCEPT !.pc = "returned", !.ret = "ctx.Err"]
    /\ UNCHANGED <<ensemble, notLlmVars>>

\* the select between attempts, case <-time.After(jitter)
WaitElapses ==
    /\ oracle.pc = "wait"
    /\ oracle' = [oracle EXCEPT !.pc = "request"]
    /\ UNCHANGED <<ensemble, notLlmVars>>

\* makeRequest under a cancelled context: httpClient.Do fails without an
\* answer, and the call returns ctx.Err()
RequestCancelled ==
    /\ oracle.pc = "request"
    /\ oracle.ctxDone
    /\ oracle' = [oracle EXCEPT !.pc = "returned", !.ret = "ctx.Err",
                                !.afterCancel = @ + 1]
    /\ UNCHANGED <<ensemble, notLlmVars>>

\* makeRequest answers 200 with a choice: the response is returned
RequestSucceeds ==
    /\ oracle.pc = "request"
    /\ ~oracle.ctxDone
    /\ oracle' = [oracle EXCEPT !.pc = "returned", !.ret = "response", !.status = 200,
                                !.requests = @ + 1]
    /\ UNCHANGED <<ensemble, notLlmVars>>

\* makeRequest fails with an HTTPError: returned for 400, 401 and 403, and
\* followed by the next attempt otherwise
RequestFails ==
    /\ oracle.pc = "request"
    /\ ~oracle.ctxDone
    /\ \E status \in Statuses \ {200} :
          LET answered == [oracle EXCEPT !.status = status, !.requests = @ + 1]
          IN oracle' = IF status \in NonRetriable
                       THEN [answered EXCEPT !.pc = "returned", !.ret = "http error"]
                       ELSE LoopHead(answered, oracle.attempt + 1)
    /\ UNCHANGED <<ensemble, notLlmVars>>

InitOracle ==
    /\ New(GridResolution)
    /\ NewCheckpointDir(CheckpointDirName)
    /\ NewWorkerPool
    /\ NewCascadeEvaluator(DefaultCascadeStages)
    /\ NewIterationWorker
    /\ NewEnsemble(DefaultModels)
    /\ \E retries \in RetriesConfigs : NewOpenAIClient(retries)
    /\ NoneScheduled

NextOracle ==
    \/ GenerateCalled
    \/ OracleCtxCancelled
    \/ WaitSeesCtxDone
    \/ WaitElapses
    \/ RequestCancelled
    \/ RequestSucceeds
    \/ RequestFails

SpecOracle == InitOracle /\ [][NextOracle]_vars

\* ---------------------------------------------------------------- properties
TypeOK ==
    /\ programs \subseteq DOMAIN heap
    /\ currentIsland \in IslandIDs

RECURSIVE SumOver(_, _)
SumOver(f, S) ==
    IF S = {} THEN 0
    ELSE LET x == CHOOSE y \in S : TRUE IN f[x] + SumOver(f, S \ {x})

\* sum of len(island.Programs) over the islands
TotalResident == SumOver([i \in IslandIDs |-> Cardinality(islands[i].Programs)], IslandIDs)

ScoreOf(id) == heap[id].Score

\* a >= b for scores, b or a possibly -Inf
ScoreGE(a, b) == ~ScoreGT(b, a)

SomethingMoved == last.op = "MigratePrograms" /\ \E i \in DOMAIN last.moved : last.moved[i] > 0

\* C1: every filled grid cell of every island holds a program that is in that
\* island's program map.
C1_GridOccupantsResident ==
    \A i \in IslandIDs : \A k \in DOMAIN islands[i].Cells :
        islands[i].Cells[k] \in islands[i].Programs

\* C2: a MigratePrograms call leaves the total number of programs over the
\* islands' program maps unchanged, leaves no id in two program maps, and
\* leaves the global index unchanged.
C2_MigrationConserves ==
    [][nMigrations' # nMigrations =>
          /\ TotalResident' = TotalResident
          /\ \A i, j \in IslandIDs :
                i # j => islands'[i].Programs \cap islands'[j].Programs = {}
          /\ programs' = programs]_vars

\* a migration has moved a program while other programs stayed behind
C2_Witness ==
    /\ SomethingMoved
    /\ Cardinality(programs) >= 2
    /\ \E i \in IslandIDs : last.moved[i] > 0 /\ islands[i].Programs # {}

\* C3: the global index is exactly the union of the islands' program maps,
\* and the sizes of the program maps add up to the size of the global index.
C3_IndexIsUnionOfIslands ==
    /\ programs = UNION {islands[i].Programs : i \in IslandIDs}
    /\ TotalResident = Cardinality(programs)

\* inserts on both islands followed by a migration that moved something
C3_Witness ==
    /\ SomethingMoved
    /\ Cardinality(programs) = MaxPrograms
    /\ \A i \in IslandIDs : islands[i].Programs # {}

\* C4: every island's cached best score is at least the score of every
\* program resident in the island's program map.
C4_IslandBestBoundsResidents ==
    \A i \in IslandIDs : \A id \in islands[i].Programs :
        ScoreGE(islands[i].BestScore, ScoreOf(id))

\* C5: every program in the store is in the global index and in the program
\* map of the island its own island id names.
C5_ProgramOnItsOwnIsland ==
    \A id \in DOMAIN heap :
        /\ id \in programs
        /\ heap[id].IslandID \in IslandIDs
        /\ id \in islands[heap[id].IslandID].Programs

\* C6: AddToGrid returns true exactly when the program becomes the occupant
\* of its cell, which happens iff the cell was empty or the program's score is
\* strictly greater than the occupant's; otherwise (ties included) the
\* occupant stays; FilledCells grows by one iff the cell was empty.
C6_AddToGridRule ==
    \A n \in DOMAIN last.calls :
        LET c == last.calls[n]
            wins == ~c.wasFilled \/ ScoreOf(c.id) > ScoreOf(c.oldOccupant)
        IN /\ c.ret = wins
           /\ c.ret = (c.newOccupant = c.id /\ c.oldOccupant # c.id)
           /\ ~c.ret => c.newOccupant = c.oldOccupant
           /\ c.filledAfter = c.filledBefore + (IF c.wasFilled THEN 0 ELSE 1)

\* AddToGrid was called on a filled cell with a program whose score ties the occupant's
C6_Witness ==
    \E n \in DOMAIN last.calls :
        LET c == last.calls[n]
        IN /\ c.wasFilled
           /\ c.oldOccupant # c.id
           /\ ScoreOf(c.id) = ScoreOf(c.oldOccupant)
           /\ ~c.ret

C8_UnsetGoesToCursorIsland ==
    (last.op = "AddProgram" /\ last.unset) =>
        /\ last.target = last.cursor
        /\ heap[last.id].IslandID = last.target

\* C9: the cursor equals the number of AddProgram calls modulo the number of
\* islands (so k mod N after k inserts with unspecified island ids); no other
\* operation moves it.
C9_CursorIsInsertsModN ==
    currentIsland = Cardinality(DOMAIN heap) % NumIslands

\* only inserts with unspecified island ids, as many as there are islands: the
\* cursor has wrapped around to 0
C9_Witness ==
    /\ NumIslands = 2
    /\ Cardinality(unsetIds) = 2
    /\ unsetIds = DOMAIN heap
    /\ last.op = "AddProgram"
    /\ last.cursor = 1
    /\ currentIsland = 0

\* C10: every island's lifetime migration counter equals the number of
\* programs moved out of that island since start.
C10_MigratedCountsMovesOut ==
    \A i \in IslandIDs : islands[i].Migrated = movedOut[i]

\* C11: in every island, after any sequence of grid insertions (programs whose
\* feature arity differs from the number of grid dimensions included) and
\* migrations, FilledCells is at most TotalCells.
C11_FilledWithinTotal ==
    \A i \in IslandIDs : islands[i].FilledCells <= islands[i].TotalCells

\* C12: SampleFromIsland(i) returns an error when island i holds no programs
\* and when i is outside [0, N); otherwise it succeeds, returning a grid
\* occupant when the grid has one and a program of the island's program map
\* when the grid is empty.
C12_SampleFromIslandErrors ==
    last.op = "SampleFromIsland" =>
        IF last.given \notin IslandIDs THEN last.err
        ELSE LET island == islands[last.given]
             IN IF island.Programs = {} THEN last.err
                ELSE /\ ~last.err
                     /\ IF DOMAIN island.Cells # {}
                        THEN last.result[1] \in SampleFromGrid(island)
                        ELSE last.result[1] \in island.Programs

\* the islands SampleMultiple is to visit when it visits k of them from the cursor on
ConsecutiveIslands(k) == [j \in 1..k |-> (last.cursor + j - 1) % NumIslands]

\* what SampleMultiple does besides choosing how many islands to visit
SampleMultipleRest ==
    LET n == last.given
        drawn == Appended(last.visited)
    IN /\ ~last.err
       /\ \A j \in DOMAIN last.visited :
              LET island == islands[last.visited[j].island]
              IN IF DOMAIN island.Cells # {}
                 THEN last.visited[j].program \in SampleFromGrid(island)
                 ELSE last.visited[j].program = island.BestProgram
       /\ Len(last.result) >= Len(drawn)
       /\ SubSeq(last.result, 1, Len(drawn)) = drawn
       /\ \A j \in (Len(drawn) + 1)..Len(last.result) : last.result[j] \in programs
       /\ Len(last.result) > Len(drawn) => Len(drawn) < n
       /\ programs # {} => Len(last.result) = n

\* C13 as stated: SampleMultiple(n) returns an error for n <= 0; for n > 0 it
\* draws one program from each of n consecutive islands starting at the cursor
\* (indices modulo N), from the grid when non-empty and the island best
\* otherwise, tops up from the global index only if fewer than n programs were
\* produced, and returns exactly n programs whenever the store is non-empty.
C13_Original ==
    last.op = "SampleMultiple" =>
        IF last.given <= 0 THEN last.err
        ELSE /\ [j \in DOMAIN last.visited |-> last.visited[j].island]
                    = ConsecutiveIslands(last.given)
             /\ SampleMultipleRest

\* C13: SampleMultiple(n) returns an error for n <= 0; for n > 0 it draws one
\* program from each of min(n, N) consecutive islands starting at the cursor
\* (indices modulo N), from the grid when non-empty and the island best
\* otherwise, tops up from the global index only if fewer than n programs were
\* produced, and returns exactly n programs whenever the store is non-empty.
C13_SampleMultiple ==
    last.op = "SampleMultiple" =>
        IF last.given <= 0 THEN last.err
        ELSE /\ [j \in DOMAIN last.visited |-> last.visited[j].island]
                    = ConsecutiveIslands(Min2(last.given, NumIslands))
             /\ SampleMultipleRest

\* more programs were asked for than there are islands, and the global index
\* supplied the rest
C13_Witness ==
    /\ last.op = "SampleMultiple"
    /\ last.given > NumIslands
    /\ Len(last.result) = last.given
    /\ Len(last.result) > Len(Appended(last.visited))

\* a store loaded from a checkpoint file shows the state the file was saved from
LoadRestoresSavedState ==
    (last.op = "LoadCheckpoint" /\ ~last.err) => Observable = files[last.given].state

\* C14: for every reachable store state S, SaveCheckpoint(S) writes a file,
\* and loading that file yields the same observable state: programs by id,
\* per-island program maps, grids, best score and id, generation and migration
\* counters, global best and statistics.
C14_CheckpointRoundTrip ==
    /\ last.op = "SaveCheckpoint" =>
          /\ ~last.err
          /\ CheckpointFile(last.given) \in DOMAIN files
          /\ files[CheckpointFile(last.given)].state = Observable
    /\ LoadRestoresSavedState

\* C15: a job is cancelled both by its caller's context and by pool shutdown:
\* a caller that returns from Evaluate after either has happened returns the
\* cancellation error, never a result.
C15_CancelledJobReturnsCancellation ==
    \A c \in Callers :
        (callers[c].pc = "returned" /\ callers[c].ret.cancelled) =>
            callers[c].ret.kind = "ctx.Err"

\* C16: an Evaluate call made after Stop has returned fails with an error
\* returned to the caller: its job is not run and the process does not crash.
C16_SubmitAfterStopFails ==
    \A c \in Callers :
        callers[c].afterStop =>
            /\ callers[c].pc # "panicked"
            /\ ~callers[c].ran
            /\ callers[c].pc = "returned" => callers[c].ret.kind = "ctx.Err"

\* stage k of the run ended the cascade: timeout, execution failure, or a
\* critical stage below its threshold
Fatal(k) ==
    \/ cascade.executed[k].outcome # "score"
    \/ stages[k].Critical /\ cascade.executed[k].score < stages[k].Threshold

\* C17: the stages run strictly in configured order, one at a time; when a
\* stage times out, fails to execute, or is critical and scores below its
\* threshold, Evaluate returns at once with an error, success=false and
\* failure_stage set to that stage's name, and no later stage is executed.
C17_FatalStageEndsCascade ==
    /\ Len(cascade.executed) <= Len(stages)
    /\ \A k \in DOMAIN cascade.executed : cascade.executed[k].name = stages[k].Name
    /\ ~cascade.returned => cascade.i = Len(cascade.executed) + 1
    /\ \A k \in DOMAIN cascade.executed :
          Fatal(k) =>
              /\ k = Len(cascade.executed)
              /\ cascade.returned
              /\ cascade.err
              /\ ~cascade.result.Success
              /\ cascade.result.failure_stage = stages[k].Name

\* a critical stage below its threshold ended the cascade before the last
\* stage, after a non-critical stage had fallen below its threshold
C17_Witness ==
    /\ cascade.returned
    /\ cascade.err
    /\ Len(cascade.executed) < Len(stages)
    /\ Len(cascade.executed) >= 2
    /\ cascade.executed[Len(cascade.executed)].outcome = "score"
    /\ \E k \in 1..(Len(cascade.executed) - 1) : ~cascade.executed[k].accepted

\* C18: a non-critical stage scoring below its threshold does not end the
\* cascade, and when every stage has completed without a fatal failure the
\* result has success=true and carries no failure_stage entry.
C18_NonCriticalFailureLeavesNoTrace ==
    /\ \A k \in DOMAIN cascade.executed :
          (~Fatal(k) /\ k = Len(cascade.executed)) =>
              (cascade.returned => ~cascade.err)
    /\ (cascade.returned /\ ~cascade.err) =>
          /\ Len(cascade.executed) = Len(stages)
          /\ cascade.result.Success
          /\ cascade.result.failure_stage = ""

\* the greatest score among the accepted stages run so far (0 when there is none)
RECURSIVE MaxAccepted(_)
MaxAccepted(k) ==
    IF k = 0 THEN 0
    ELSE LET m == MaxAccepted(k - 1)
         IN IF cascade.executed[k].accepted /\ cascade.executed[k].score > m
            THEN cascade.executed[k].score ELSE m

\* C19: at every point of a cascade run and in its final result, the result's
\* score is the maximum over the scores of the accepted stages (score >=
\* threshold) run so far, and of those stages only (stated for the runs in
\* which a stage has been accepted).
C19_ScoreIsMaxOfAccepted ==
    (\E k \in DOMAIN cascade.executed : cascade.executed[k].accepted) =>
        cascade.result.Score = MaxAccepted(Len(cascade.executed))

StepOrder == <<"sample", "prompt", "oracle", "parse", "length", "evaluate", "insert">>

\* C20: within one RunIteration the steps occur in the order sample-parent,
\* prompt-build, oracle call, (parsing, length check,) evaluate, insert, and
\* insertion is the last step: up to the insertion, and when the iteration
\* has failed at an earlier step, the store is as it was when the iteration
\* began.
C20_InsertionIsLast ==
    iter.pc # "idle" =>
        /\ Len(iter.steps) <= Len(StepOrder)
        /\ iter.steps = SubSeq(StepOrder, 1, Len(iter.steps))
        /\ iter.pc = "done" <=> (iter.steps = StepOrder)
        /\ iter.pc # "done" => StoreState = iter.before

\* the iteration failed at the evaluation, on a store that holds programs
C20_Witness ==
    /\ iter.pc = "failed"
    /\ iter.steps = SubSeq(StepOrder, 1, 6)
    /\ programs # {}
    /\ StoreState = iter.before

\* the fields of the store, without the history kept next to them
StoreFields == <<gridResolution, gridBounds, heap, programs, islands, globalBest, globalBestScore,
                 currentIsland, lastMigrationGeneration, stats>>

\* C21: after SaveCheckpoint(iteration) returns success with a checkpoint
\* directory configured, checkpoint_<iteration>.json and latest.json both
\* exist and hold identical, complete bytes; the call modifies no store state.
C21_SaveWritesBothFiles ==
    /\ []((last.op = "SaveCheckpoint" /\ ~last.err /\ checkpointDir # "") =>
             /\ {CheckpointFile(last.given), LatestFile} \subseteq DOMAIN files
             /\ files[CheckpointFile(last.given)] = files[LatestFile]
             /\ ~files[LatestFile].partial
             /\ files[LatestFile].checkpoint = CheckpointOf(last.given))
    /\ [][last'.op = "SaveCheckpoint" => UNCHANGED StoreFields]_vars

\* a successful SaveCheckpoint call with a directory configured
C21_Witness ==
    /\ last.op = "SaveCheckpoint" /\ ~last.err /\ checkpointDir # ""
    /\ LatestFile \in DOMAIN files
    /\ programs # {}

\* C22: checkpoint writes are atomic: whatever SaveCheckpoint call fails and
\* wherever it fails, no file of the checkpoint directory is left holding
\* part of a document; each holds its previous or its new complete content.
C22_WritesAreAtomic ==
    \A n \in DOMAIN files : ~files[n].partial

\* the jobs a worker holds: taken from the channel, result not yet handed over
Processing == {w \in Workers : workers[w].pc \in {"processJob", "send"}}

\* an Evaluate call at its first select with the job channel full
Blocked(c) == callers[c].pc = "submit" /\ Len(wp.jobs) = JobsCapacity

\* at most maxWorkers jobs are processed, at most 2*maxWorkers wait, and a call
\* that returned from its first select through ctx.Done() returns the context
\* error without its job ever being run
PoolIsBounded ==
    /\ Cardinality(Processing) <= MaxWorkers
    /\ Len(wp.jobs) <= JobsCapacity
    /\ \A c \in Callers :
          (callers[c].pc = "returned" /\ ~callers[c].submitted) =>
              /\ callers[c].ret.kind = "ctx.Err"
              /\ ~callers[c].ran

\* a blocked call stays blocked unless its context is cancelled, and then it
\* returns the context error
BlockedCallWaits(c) ==
    Blocked(c) =>
        \/ callers'[c].pc = "submit"
        \/ /\ callers[c].ctxDone
           /\ callers'[c].pc = "returned"
           /\ callers'[c].ret.kind = "ctx.Err"

\* as long as Stop has not closed the job channel
BoundedWhileOpen ==
    /\ []PoolIsBounded
    /\ [][~wp.jobsClosed => \A c \in Callers : BlockedCallWaits(c)]_vars

\* C23: the pool is bounded: at most maxWorkers jobs are being processed and
\* at most 2*maxWorkers submitted jobs wait in the job channel; a further
\* Evaluate call blocks until space frees or its context is cancelled, and in
\* that case returns the context error and its job is never run.
C23_PoolIsBounded ==
    /\ []PoolIsBounded
    /\ [][\A c \in Callers : BlockedCallWaits(c)]_vars

\* the sum of the first k weights of the ensemble
RECURSIVE Cumulative(_)
Cumulative(k) == IF k = 0 THEN RZero ELSE RAdd(Cumulative(k - 1), ensemble.weights[k])

\* the weights are non-negative, sum to 1, and are the raw weights divided by
\* their sum, or 1/n each when that sum is 0
WeightsNormalized ==
    LET n == Len(ensemble.configs)
        total == SumWeights(ensemble.configs)
    IN /\ ~ensemble.err
       /\ Len(ensemble.weights) = n
       /\ \A i \in 1..n : ensemble.weights[i][2] > 0 /\ ensemble.weights[i][1] >= 0
       /\ Cumulative(n) = ROne
       /\ \A i \in 1..n :
             IF total = 0
             THEN ensemble.weights[i][1] * n = ensemble.weights[i][2]
             ELSE ensemble.weights[i][1] * total = ensemble.configs[i] * ensemble.weights[i][2]

\* the claim of C24 for configurations without a negative raw weight
NormalizedWhenNonNegative ==
    (ensemble.configs # << >> /\ \A i \in DOMAIN ensemble.configs : ensemble.configs[i] >= 0)
        => WeightsNormalized

\* C24: after NewEnsemble succeeds the weights are non-negative and sum to 1,
\* each the raw weight divided by the raw sum, or 1/n each when the raw
\* weights sum to 0; an empty configuration list is rejected with an error
\* and no ensemble.
C24_WeightsNormalized ==
    /\ ensemble.configs = << >> => ensemble.err /\ ensemble.clients = 0
    /\ ensemble.configs # << >> => WeightsNormalized

Attempts == oracle.requests + oracle.afterCancel

\* one generate call with at most retries + 1 attempts: the first success is
\* returned, 400, 401 and 403 end the call with their error, a cancelled
\* context ends it with the context error, and the max-retries error comes
\* after the last attempt
GenerateWithin(retries) ==
    /\ Attempts <= retries + 1
    /\ oracle.ret = "response" => oracle.status = 200 /\ oracle.pc = "returned"
    /\ oracle.status = 200 => oracle.ret = "response"
    /\ oracle.status \in NonRetriable => oracle.pc = "returned" /\ oracle.ret = "http error"
    /\ (oracle.pc = "returned" /\ oracle.ctxDone) => oracle.ret = "ctx.Err"
    /\ oracle.afterCancel <= 1
    /\ oracle.ret = "max retries" =>
          /\ Attempts = retries + 1
          /\ oracle.status \notin NonRetriable \cup {200}

\* the claim of C26 with the retries the client uses, 3 for a configured 0
BoundedByEffectiveRetries == GenerateWithin(maxRetries)

\* C26: one oracle generate call makes at most the configured retries plus
\* one HTTP attempts: it returns the first successful response, stops at once
\* with the error on HTTP 400, 401 or 403, returns the context error as soon
\* as the context is cancelled, also while waiting between attempts, and
\* otherwise fails with a max-retries error after the last attempt.
C26_BoundedRetries == GenerateWithin(oracle.Retries)

\* the child RunIteration has just inserted has a new id, the generation after
\* its parent's and its parent's island id, and is resident on that island
ChildOnParentIsland ==
    LET child == heap[iter.child]
        parent == heap[iter.parent]
    IN /\ iter.child \notin DOMAIN iter.before[1]
       /\ child.Generation = parent.Generation + 1
       /\ child.IslandID = parent.IslandID
       /\ child.IslandID \in IslandIDs
       /\ iter.child \in islands[child.IslandID].Programs

\* the claim of C27 for a parent whose island id names an island
ChildOnValidParentIsland ==
    (iter.pc = "done" /\ heap[iter.parent].IslandID \in IslandIDs) => ChildOnParentIsland

\* C27: the child assembled by RunIteration has a fresh id, generation equal
\* to parent.generation + 1 and the parent's island id, and when inserted it
\* becomes resident on that same island.
C27_ChildOnParentIsland ==
    iter.pc = "done" => ChildOnParentIsland

\* x lies in [k, k + 1)
FloorIs(x, k) == ~RLess(x, <<k, 1>>) /\ RLess(x, <<k + 1, 1>>)

\* the index the claim gives feature f in a dimension with bounds [lo, hi] and
\* resolution R
IndexAsClaimed(f, lo, hi, R, index) ==
    /\ index \in 0..(R - 1)
    /\ RLess(f, lo) => index = 0
    /\ ~RLess(f, hi) => index = R - 1
    /\ (~RLess(f, lo) /\ RLess(f, hi)) =>
          LET t == RSub(f, lo)
              w == RSub(hi, lo)
          IN FloorIs(RDiv(<<t[1] * (R - 1), t[2]>>, w), index)

\* C28: for a dimension with bounds [lo, hi] and resolution R the grid index
\* of a feature f is floor(clamp((f-lo)/(hi-lo), 0, 1) * (R-1)) and lies in
\* [0, R-1]: 0 below lo, R-1 at and above hi; with R = 5 over [0, 1] the
\* features 0, 1/2 and 1 have the indices 0, 2 and 4.
C28_CellIndexInRange ==
    (last.op = "calculateCellKey" /\ Len(last.features) = Len(GridDimensions)) =>
        /\ Len(last.result) = Len(GridDimensions)
        /\ \A k \in 1..Len(GridDimensions) :
              LET dim == GridDimensions[k]
              IN /\ last.result[k][1] = dim
                 /\ IndexAsClaimed(last.features[k], gridBounds[dim][1], gridBounds[dim][2],
                                   gridResolution[dim], last.result[k][2])
        /\ (gridResolution["complexity"] = 5 /\ gridBounds["complexity"] = <<RZero, ROne>>) =>
              /\ last.features = <<RZero>> => last.result[1][2] = 0
              /\ last.features = <<RHalf>> => last.result[1][2] = 2
              /\ last.features = <<ROne>> => last.result[1][2] = 4

\* a feature strictly inside the bounds whose index is neither the first nor
\* the last of the dimension
C28_Witness ==
    /\ last.op = "calculateCellKey"
    /\ Len(last.result) = 1
    /\ last.result[1][2] \in 1..(gridResolution["complexity"] - 2)
    /\ gridBounds["complexity"] # <<RZero, ROne>>

\* C29: UpdateGeneration increments every island's generation by one and,
\* when islands[0].generation - lastMigrationGeneration >= migrationInterval,
\* schedules one asynchronous migration and records the new
\* lastMigrationGeneration at the moment of scheduling, so that calls made
\* before that migration runs do not schedule another one for the same
\* interval.
C29_OneMigrationPerInterval ==
    /\ [](\A j \in 2..Len(scheduled.at) :
             scheduled.at[j] - scheduled.at[j - 1] >= MigrationInterval)
    /\ [][last'.op = "UpdateGeneration" =>
             /\ \A i \in IslandIDs : islands'[i].Generation = islands[i].Generation + 1
             /\ Len(scheduled'.at) <= Len(scheduled.at) + 1
             /\ Len(scheduled'.at) > Len(scheduled.at) =>
                   lastMigrationGeneration' = islands'[0].Generation]_vars

\* C30: migration is atomic with respect to readers and inserts: a mutation
\* holds the store lock exclusively and a read holds it shared, so no reader
\* ever observes a migrating program absent from both its source and its
\* destination island's program map.
C30_MigrationIsAtomic ==
    /\ \A r \in Readers :
          /\ readers[r].pc \in {"reading", "read"} => r \in mu.readers /\ mu.writer = ""
          /\ readers[r].absent = {}
    /\ migration.pc # "idle" => mu.writer = "MigratePrograms" /\ mu.readers = {}

\* two readers hold the lock together, after a migration has moved a program
C30_Witness ==
    /\ \A r \in Readers : readers[r].pc = "read"
    /\ nMigrations > 0
    /\ \E i \in IslandIDs :
          /\ islands[i].Migrated > 0
          /\ islands[(i + 1) % NumIslands].Programs # {}

\* ---------------------------------------------------------------- migration
Max2(a, b) == IF a > b THEN a ELSE b

\* min(|candidates|, max(1, floor(|candidates| * migrationRate))), none for none
ClaimedMoves(c) ==
    IF c = 0 THEN 0
    ELSE Min2(c, Max2(1, (c * MigrationRateNum) \div MigrationRateDen))

\* the residents of island i with score > 0.8 * island.bestScore
ClaimedCandidates(i) ==
    {id \in islands[i].Programs :
        islands[i].BestScore = NegInf \/ 10 * heap[id].Score > 8 * islands[i].BestScore}

\* the loop reaches island i and takes its migrants
TakesClaimedMigrants ==
    migration.pc = "island" /\ migration'.pc = "delete" =>
        /\ Len(migration'.order) = ClaimedMoves(Cardinality(ClaimedCandidates(migration.i)))
        /\ Range(migration'.order) \subseteq ClaimedCandidates(migration.i)
        /\ Cardinality(Range(migration'.order)) = Len(migration'.order)

\* a migrant is deleted from the source map
DeletesFromSource ==
    migration.pc = "delete" /\ migration'.pc = "insert" =>
        /\ migration'.inFlight = migration.order[migration.j]
        /\ migration'.inFlight \in islands[migration.i].Programs
        /\ islands'[migration.i].Programs =
              islands[migration.i].Programs \ {migration'.inFlight}

\* a migrant gets the next island's id and enters the next island's map
EntersNextIsland ==
    migration.pc = "insert" /\ migration'.pc = "delete" =>
        LET id == migration.inFlight
            t == (migration.i + 1) % NumIslands
        IN /\ heap'[id].IslandID = t
           /\ islands'[t].Programs = islands[t].Programs \cup {id}
           /\ migration'.j = migration.j + 1

\* a migrant occupies its cell of the next island's grid
EntersNextGrid ==
    migration.pc = "insert" /\ migration'.pc = "delete" =>
        LET id == migration.inFlight
            t == (migration.i + 1) % NumIslands
            key == calculateCellKey(heap[id].Features)
        IN key \in DOMAIN islands'[t].Cells /\ islands'[t].Cells[key] = id

\* a migrant occupies its cell of the next island's grid when the cell was
\* empty or held a program of strictly lower score, and otherwise the grid
\* stays as it was
OfferedToNextGrid ==
    migration.pc = "insert" /\ migration'.pc = "delete" =>
        LET id == migration.inFlight
            t == (migration.i + 1) % NumIslands
            key == calculateCellKey(heap[id].Features)
            cells == islands[t].Cells
        IN IF key \notin DOMAIN cells \/ heap[id].Score > heap[cells[key]].Score
           THEN key \in DOMAIN islands'[t].Cells /\ islands'[t].Cells[key] = id
           ELSE islands'[t].Cells = cells

\* with fewer than two islands the call changes nothing in the store
SingleIslandUnchanged ==
    NumIslands < 2 /\ (migration.pc # "idle" \/ migration'.pc # "idle") =>
        /\ migration'.pc \in {"unlock", "idle"}
        /\ UNCHANGED <<heap, programs, islands, globalBest, globalBestScore, currentIsland,
                       lastMigrationGeneration, stats>>

Running(w) == workers[w].pc \in {"select", "processJob", "send"}

\* cancellation, then the job channel, then the results channel
StopStepsInOrder ==
    /\ wp.jobsClosed => wp.ctxDone
    /\ wp.resultsClosed => wp.jobsClosed

\* the results channel is not closed while a worker is running
ResultsClosedAfterWorkers == wp.resultsClosed => \A w \in Workers : ~Running(w)

\* a worker that has taken the ctx.Done case takes no further job
NoJobAfterCancellation ==
    \A w \in Workers : workers[w].pc = "returned" => workers'[w].pc = "returned"

\* Stop returns once the workers have finished what they were doing
StopTerminates == wp.stop = "cancelled" ~> (wp.stop = "returned" \/ panicked)

\* the claim without its first part
StopOrderedAndTerminates ==
    /\ []StopStepsInOrder
    /\ [][NoJobAfterCancellation]_vars
    /\ StopTerminates

\* C32: Stop performs its steps in order (cancel, close the job channel, wait
\* for all workers, close the results channel): the results channel is never
\* closed while any worker is still running, no worker picks up a new job
\* after it has observed cancellation, and Stop terminates once the jobs in
\* flight have finished.
C32_StopInOrder ==
    /\ []StopStepsInOrder
    /\ []ResultsClosedAfterWorkers
    /\ [][NoJobAfterCancellation]_vars
    /\ StopTerminates

\* ------------------------------------------------------ concurrent selection
\* C33: concurrent selections never use the ensemble's random generator at
\* the same time: every draw happens under mutual exclusion of the ensemble's
\* own lock.
C33_DrawsAreExclusive ==
    /\ Cardinality({g \in Goroutines : ensemble.go.pc[g] = "Float64"}) <= 1
    /\ \A g \in Goroutines : ensemble.go.pc[g] = "Float64" => ensemble.go.rlocked = {g}

\* every draw happens with the ensemble's lock held, shared
DrawsUnderSharedLock ==
    \A g \in Goroutines : ensemble.go.pc[g] = "Float64" => g \in ensemble.go.rlocked

\* ------------------------------------------------------------ stage scores
\* the first line of the output that is "SCORE: <float>", or 0
FirstScoreLine(output) ==
    LET S == {i \in 1..Len(output.lines) : output.lines[i].kind = "score"}
    IN IF S = {} THEN 0 ELSE CHOOSE i \in S : \A j \in S : i <= j

\* the JSON score field, else the float of the first SCORE: line, else -1.0
ClaimedScore(output) ==
    IF output.json = "score" THEN output.v
    ELSE IF FirstScoreLine(output) # 0 THEN output.lines[FirstScoreLine(output)].v
    ELSE NoScore

\* C34: a stage's score is, in this order: the score field when the output
\* parses as JSON with a score field; otherwise the float of the first line
\* of the output matching SCORE: <float>, whichever line it is on; otherwise
\* the sentinel -1.0, and the stage is unsuccessful.
C34_StageScoreOrder ==
    last.op = "parseScoreOutput" =>
        /\ last.result.Score = ClaimedScore(last.features)
        /\ ClaimedScore(last.features) = NoScore => ~last.result.Success

\* for an output that is not JSON with a score field and has no SCORE: line
\* after its first line
StageScoreOfFirstLine ==
    /\ last.op = "parseScoreOutput"
    /\ last.features.json # "score"
    /\ FirstScoreLine(last.features) \in {0, 1}
    => /\ last.result.Score = ClaimedScore(last.features)
       /\ ClaimedScore(last.features) = NoScore => ~last.result.Success

\* ------------------------------------------------------------ feature arity
\* the key built from the first min(len(features), len(dimensions)) dimensions
PartialKey(features) ==
    [k \in 1..Min2(Len(features), Len(GridDimensions)) |->
        <<GridDimensions[k], CellIndex(GridDimensions[k], features[k])>>]

\* C35: when a program's feature arity differs from the number of grid
\* dimensions, the cell key is built from the first min(len(features),
\* len(dimensions)) dimensions; the key may be partial but is a function of
\* those features, so programs with different leading features land in
\* different cells.
C35_PartialKey ==
    last.op = "calculateCellKeyPair" =>
        /\ \A p \in 1..2 : last.result[p] = PartialKey(last.features[p])
        /\ PartialKey(last.features[1]) # PartialKey(last.features[2])
              => last.result[1] # last.result[2]

\* what the code does instead: a vector of the wrong arity has the empty key
EmptyKeyOnArityMismatch ==
    last.op = "calculateCellKeyPair" =>
        \A p \in 1..2 :
            last.result[p] = IF Len(last.features[p]) = Len(GridDimensions)
                             THEN PartialKey(last.features[p])
                             ELSE << >>

\* -------------------------------------------------------- feature statistics
\* the programs inserted into island i so far: those still resident and those
\* that have moved out
Inserted(i) == Cardinality(islands[i].Programs) + movedOut[i]

RLessEq(a, b) == ~RLess(b, a)

\* C36: feature statistics are updated on each program insert: after k
\* programs have been inserted into an island, every dimension's sample count
\* equals k and its min and max bound the feature values of the inserted
\* programs.
C36_StatsCountInserts ==
    \A i \in IslandIDs : \A k \in 1..Len(GridDimensions) :
        LET st == islands[i].FeatureStats[GridDimensions[k]]
        IN /\ st.Count = Inserted(i)
           /\ \A id \in islands[i].Programs :
                 /\ RLessEq(st.Min, heap[id].Features[k])
                 /\ RLessEq(heap[id].Features[k], st.Max)

\* what the code keeps: a sample per program that entered a grid cell, so
\* that the count lies between the filled cells and the inserts, and min and
\* max bound the features of the cells' occupants
StatsCountGridEntries ==
    \A i \in IslandIDs : \A k \in 1..Len(GridDimensions) :
        LET st == islands[i].FeatureStats[GridDimensions[k]]
        IN /\ st.Count >= islands[i].FilledCells
           /\ st.Count <= Inserted(i)
           /\ \A key \in DOMAIN islands[i].Cells :
                 /\ RLessEq(st.Min, heap[islands[i].Cells[key]].Features[k])
                 /\ RLessEq(heap[islands[i].Cells[key]].Features[k], st.Max)

\* --------------------------------------------------------------- ring hops
\* the programs the call moved, in the order it moved them
MovedIds(calls) == [k \in 1..Len(calls) |-> calls[k].id]

\* a program resident on island i before the call is on island i or on the
\* next island after it
AtMostOneHop ==
    \A i \in IslandIDs : \A id \in islands[i].Programs :
        id \in islands'[i].Programs \cup islands'[(i + 1) % NumIslands].Programs

\* no program is moved twice by one call
MovedOnce ==
    \A a, b \in 1..Len(last'.calls) :
        a # b => MovedIds(last'.calls)[a] # MovedIds(last'.calls)[b]

\* C37: in a single MigratePrograms call every program moves at most one hop
\* along the ring: a program resident on island i before the call is
\* resident on island i or on island (i+1) mod N after it; programs that
\* arrived on an island during the call are not selected again as that
\* island's migrants.
C37_AtMostOneHop ==
    [][last'.op = "MigratePrograms" /\ NumIslands >= 2 => AtMostOneHop /\ MovedOnce]_vars

\* the part that holds: a program is moved out of an island it was resident
\* on when the loop reached that island, to the next island
MovedAlongRing ==
    [][last'.op = "MigratePrograms" /\ NumIslands >= 2 =>
          \A k \in 1..Len(last'.calls) :
              LET id == last'.calls[k].id
                  t == last'.calls[k].island
                  earlier == {j \in 1..(k - 1) : last'.calls[j].id = id}
                  from == (t + NumIslands - 1) % NumIslands
              IN IF earlier = {}
                 THEN id \in islands[from].Programs
                 ELSE \E j \in earlier : last'.calls[j].island = from]_vars

\* -------------------------------------------------------- sampled residents
\* the program a successful SampleFromIsland(i) returned is resident on island i
SampledIsResident ==
    LET p == last.result[1]
    IN /\ p \in islands[last.given].Programs
       /\ heap[p].IslandID = last.given

\* C38: whenever SampleFromIsland(i) succeeds, in any state reachable by
\* inserts and migrations, the returned program is currently resident on
\* island i: it is in island i's program map and its island id is i.
C38_SampledIsResident ==
    last.op = "SampleFromIsland" /\ ~last.err => SampledIsResident

\* before any migration, and for a program inserted with the id of an island
SampledIsResidentWithoutBugs ==
    /\ last.op = "SampleFromIsland"
    /\ ~last.err
    /\ nMigrations = 0
    /\ heap[last.result[1]].IslandID \in IslandIDs
    => SampledIsResident

\* ------------------------------------------------------------ saving
\* the call returned no error and both files are there
SaveSucceeded ==
    /\ ~last.err
    /\ {CheckpointFile(last.given), LatestFile} \subseteq DOMAIN files
    /\ files[LatestFile].checkpoint = CheckpointOf(last.given)

\* C39: SaveCheckpoint succeeds (returns no error and writes both files) in
\* every reachable store state with a writable checkpoint directory,
\* including states in which some island has never received a program and
\* therefore still has best score negative infinity.
C39_SaveSucceeds ==
    last.op = "SaveCheckpoint" => SaveSucceeded

\* when every island has received a program
SaveSucceedsWithoutEmptyIsland ==
    /\ last.op = "SaveCheckpoint"
    /\ \A i \in IslandIDs : islands[i].BestScore # NegInf
    => SaveSucceeded

LoadedOlderCheckpoint ==
    /\ last.op = "LoadCheckpoint"
    /\ ~last.err
    /\ Cardinality(programs) < Cardinality(DOMAIN heap)

====
